---- MODULE Spec2Model ----
(***************************************************************************)
(* Model of the conversation graph of src/core/conversation-graph.js:      *)
(* MessageNode, ConversationGraph.addMessage, processEditVersions,         *)
(* getEditSiblings, the conversation paths (setConversationPath,           *)
(* getConversationPath, findDivergencePoint, getUniquePathAfter) and       *)
(* validate; and of markTerminalNodes, as the panel defines it and as the  *)
(* core tree builder (src/core/storage.js) exports it.  A JavaScript Map   *)
(* or Set that some operation iterates is modelled with its insertion      *)
(* order (a sequence of keys); a Set or Map that is only looked up is a    *)
(* set or a function.                                                      *)
(***************************************************************************)
EXTENDS Integers, Sequences, FiniteSets, TLC

\* ------------------------------------------------------------------ inputs

\* JavaScript null (and undefined where the code treats both alike).
Null == "null"

\* The message ids the calls draw from, in lexicographic (Array.sort) order.
IdSeq == <<"a", "b", "c">>
Ids == {IdSeq[i] : i \in 1..Len(IdSeq)}

\* The conversation ids the calls draw from.
ConvIds == {"c1", "c2"}

\* The (text, role, createTime) contents a message may carry.
Payloads ==
  { [text |-> "hello", role |-> "user", createTime |-> 10],
    [text |-> "", role |-> "assistant", createTime |-> 0] }

\* The messages addMessage is called with.  parentId "" stands for a missing
\* or empty parentId, which the constructor turns into null.
MessagesWith(payloads) ==
  { [id |-> i, parentId |-> p, text |-> c.text, role |-> c.role,
     createTime |-> c.createTime] :
      i \in Ids, p \in Ids \cup {Null, ""}, c \in payloads }

Messages == MessagesWith(Payloads)

\* The calls of the runs that also process edit versions: one content and
\* one conversation, every id and every parentId.
PlainMessages ==
  MessagesWith({[text |-> "hello", role |-> "user", createTime |-> 10]})

PlainConvIds == {"c1"}

\* The siblingIds arrays processEditVersions sees on its messages; <<>> also
\* stands for a message without siblingIds.
SiblingLists ==
  { <<>>, <<"b">>, <<"a", "a">>, <<"b", "a">>, <<"a", "c">>, <<"c", "b">>,
    <<"c", "a", "b">> }

\* At most this many calls on the graph in one run.
MaxCalls == 3

\* At most this many messages in one processEditVersions call.
MaxMessages == 2

EditMessages == {[id |-> s[1], siblingIds |-> s] : s \in SiblingLists \ {<<>>}}
                  \cup {[id |-> "a", siblingIds |-> <<>>]}

EditMessageLists ==
  UNION {[1..n -> EditMessages] : n \in 0..MaxMessages}

Platforms == {"chatgpt", "claude"}

\* The ids and the length of the paths setConversationPath is called with.
PathIds == {"a", "b"}

MaxPathLen == 3

\* Longer paths over more ids, and paths that hold an empty id.
ExtraPaths ==
  { <<"a", "b", "c", "d">>, <<"a", "b", "e">>, <<"", "a">>, <<"", "b">> }

Paths == UNION {[1..n -> PathIds] : n \in 0..MaxPathLen} \cup ExtraPaths

\* A colorIndex that is undefined; the color indexes are written as strings.
Undefined == "undefined"

ColorIndexes == {Undefined, "1"}

\* The display nodes of the arrays markTerminalNodes is given: messages and
\* edit branches of the main line or inside a branch, a title, and branch
\* markers that are collapsed or expanded.  expanded is false for a node
\* that has no such property.
DisplayNodeKinds ==
  {[type |-> t, colorIndex |-> c, expanded |-> FALSE] :
     t \in {"message", "editBranch"}, c \in ColorIndexes}
  \cup {[type |-> "title", colorIndex |-> Undefined, expanded |-> FALSE]}
  \cup {[type |-> "branch", colorIndex |-> c, expanded |-> e] :
          c \in ColorIndexes, e \in BOOLEAN}

\* At most this many display nodes in an array.
MaxNodes == 4

NodeSequences == UNION {[1..n -> DisplayNodeKinds] : n \in 0..MaxNodes}

\* The depths of display nodes, written as strings; a node may have none.
Depths == {Undefined, "0", "1"}

\* The display nodes of the arrays annotateContextContinuations is given:
\* nodes that are no branch markers at every depth and colorIndex, and
\* branch markers.
ContextNodeKinds ==
  {[type |-> "message", depth |-> d, colorIndex |-> c] :
     d \in Depths, c \in ColorIndexes}
  \cup {[type |-> "branch", depth |-> "1", colorIndex |-> c] :
          c \in ColorIndexes}

ContextSequences == UNION {[1..n -> ContextNodeKinds] : n \in 0..MaxNodes}

\* The values of JavaScript that `??` and `===` do not treat as the template
\* string of makeKey does: NaN, which is not === to itself, and the string
\* '0', which is not === to the number 0 and is written like it.
NaN == "NaN"

StringZero == "'0'"

\* Every value a colorIndex and a depth are tried with: the ones above,
\* null, NaN and the string '0'.
ColorIndexValues == ColorIndexes \cup {Null, NaN}

DepthValues == Depths \cup {Null, StringZero}

ContextValueNodeKinds ==
  {[type |-> "message", depth |-> d, colorIndex |-> c] :
     d \in DepthValues, c \in ColorIndexValues}
  \cup {[type |-> "branch", depth |-> "1", colorIndex |-> c] :
          c \in ColorIndexValues}

\* At most this many display nodes in an array of such values.
MaxValueNodes == 3

ContextValueSequences ==
  UNION {[1..n -> ContextValueNodeKinds] : n \in 0..MaxValueNodes}

\* Timestamps.  A number is written k * scale with a small k, so that
\* seconds (scale 1e9), milliseconds (scale 1e12) and small values
\* (scale 1) are told apart; k is positive at the scales 1e9 and 1e12.
Num(k, scale) == [k |-> k, scale |-> scale]

Zero == Num(0, "1")

Trillion == Num(1, "1e12")

ScaleRank(scale) == CASE scale = "1" -> 0 [] scale = "1e9" -> 1 [] scale = "1e12" -> 2

\* a > b
Greater(a, b) ==
  IF a.scale = b.scale THEN a.k > b.k
  ELSE ScaleRank(a.scale) > ScaleRank(b.scale)

\* ts / 1000 of a number of the scale 1e12
Thousandth(ts) == Num(ts.k, "1e9")

\* The createTime values of messages: none (0), seconds, milliseconds.
MessageTimes == {Zero, Num(2, "1e9"), Num(3, "1e12")}

\* The createdAt values of branch records (pending.timestamp, seconds).
BranchTimes == {Num(2, "1e9"), Num(3, "1e9")}

\* At most this many messages in the array buildDisplayList is given.
MaxListMessages == 2

\* At most this many branches recorded under one conversation.
MaxBranches == 2

\* The messages extraction hands to buildDisplayList: current-path
\* messages and editBranch items of either role; an editBranch item has
\* depth 1, a message has no depth.
ListMessageKinds ==
  {[type |-> "message", role |-> r, createTime |-> t, depth |-> Undefined] :
     r \in {"user", "assistant"}, t \in MessageTimes}
  \cup {[type |-> "editBranch", role |-> r, createTime |-> t, depth |-> "1"] :
          r \in {"user", "assistant"}, t \in MessageTimes}

MessageIdAt(i) == CASE i = 1 -> "m1" [] i = 2 -> "m2" [] i = 3 -> "m3" [] OTHER -> "m4"

ChildIdAt(i) == CASE i = 1 -> "c1" [] i = 2 -> "c2" [] i = 3 -> "c3" [] OTHER -> "c4"

\* Arrays of messages, each with an id of its own.
ListMessages ==
  UNION {{[i \in 1..n |->
             [id |-> MessageIdAt(i), type |-> kinds[i].type,
              role |-> kinds[i].role, createTime |-> kinds[i].createTime,
              depth |-> kinds[i].depth]] :
            kinds \in [1..n -> ListMessageKinds]} : n \in 0..MaxListMessages}

\* branchData.branches[conversationId]: records of distinct children.
BranchLists ==
  UNION {{[i \in 1..n |-> [childId |-> ChildIdAt(i), createdAt |-> times[i]]] :
            times \in [1..n -> BranchTimes]} : n \in 0..MaxBranches}

\* The title: none, or one.
Titles == {"", "Hi"}

\* The id of the conversation in view.
CurrentConversationId == "conv"

BuildArgs ==
  [messages : ListMessages, title : Titles, branches : BranchLists]

\* The ChatGPT conversations the page may show.
BranchIds == {"p", "c", "d"}

\* conv.title of a conversation.
TitleOf(id) == "Title of " \o id

\* The time of a click on "Branch in new chat" (seconds), later than the
\* messages the new conversation inherits.
ClickTime == Num(3, "1e9")

\* extractChatGPTTree of any conversation: a user message and the answer.
ConversationMessages ==
  << [id |-> "m1", type |-> "message", role |-> "user",
      createTime |-> Num(2, "1e9"), depth |-> Undefined],
     [id |-> "m2", type |-> "message", role |-> "assistant",
      createTime |-> Num(2, "1e9"), depth |-> Undefined] >>

\* At most this many clicks on "Branch in new chat".
MaxClicks == 2

\* ------------------------------------------------------------------- state

VARIABLES
  calls,        \* the number of calls made so far
  nodes,        \* ConversationGraph.nodes: messageId -> MessageNode
  nodeKeys,     \* the insertion order of the keys of nodes
  editGroups,   \* ConversationGraph.editGroups: groupId -> members, in insertion order
  groupKeys,    \* the insertion order of the keys of editGroups
  validated,    \* whether validate() has been called
  errors,       \* the array the validate() call returned
  parentFirst,  \* history: every addMessage so far named no parent or a parent already added
  listedEarly,  \* history: ids that processEditVersions listed in a group before they had a node
  insertedUnder, \* history: the <<message id, conversation id>> pairs addMessage was called with
  conversations, \* ConversationGraph.conversations: conversationId -> {path, ...metadata}
  returned,     \* the outcome of the latest call whose caller looked at it
  displayNodes, \* the flat array of display nodes handed to markTerminalNodes
  panelNodes,   \* that array after the panel's markTerminalNodes (<<>> before)
  coreNodes,    \* that array after the core tree builder's markTerminalNodes (<<>> before)
  contextNodes, \* the flat array handed to annotateContextContinuations
  annotatedNodes, \* that array after annotateContextContinuations (<<>> before)
  buildArgs,    \* the arguments buildDisplayList is called with
  builtList,    \* which buildDisplayList has run, and the array it returned
  stored,       \* chrome.storage.local[STORAGE_KEY]: the branch data
  pendingBranch, \* chrome.storage.local.pendingBranch: the parent id, or Null
  builds,       \* the executions of handleGetTree, by what started them
  isRefreshing, \* content.js isRefreshing
  refreshTimer, \* whether content.js refreshTimer is armed
  panelIsRefreshing, \* the panel's isRefreshing
  panelTimer,   \* whether the panel's refreshDebounceTimer is armed
  panelRequest, \* how far the panel's refresh() has come
  clearing,     \* how far the click listener of "Clear all branch data" has come
  returnedTree, \* what the latest handleGetTree to finish returned, and the branch data it built the nodes of, until the panel has it
  saved,        \* history: the <<parent, child>> records checkPendingBranch saved since the last clear
  unserved,     \* history: a refresh was requested and no tree build has started since
  clicks,       \* the number of clicks on "Branch in new chat" so far
  page,         \* the page the tab shows: its conversation, and whether its path has the WEB: prefix
  lastContentUrl, \* content.js lastContentUrl: the page checkUrlChange saw last
  memoryCache,  \* content.js memoryCache: the keys of the Map, in insertion order
  cachedInStorage \* the conversations with a conv_cache_ entry in chrome.storage.local

vars == <<calls, nodes, nodeKeys, editGroups, groupKeys, validated, errors,
          parentFirst, listedEarly, insertedUnder, conversations, returned,
          displayNodes, panelNodes, coreNodes, contextNodes, annotatedNodes,
          buildArgs, builtList, stored, pendingBranch, builds,
          isRefreshing, refreshTimer, panelIsRefreshing, panelTimer,
          panelRequest, clearing, returnedTree, saved, unserved, clicks, page,
          lastContentUrl, memoryCache, cachedInStorage>>

\* The fields of the conversation graph and what is recorded of its calls.
graphVars == <<calls, nodes, nodeKeys, editGroups, groupKeys, validated,
               errors, parentFirst, listedEarly, insertedUnder, conversations,
               returned>>

\* The array annotateContextContinuations works on.
contextVars == <<contextNodes, annotatedNodes>>

ContextIdle ==
  /\ contextNodes = <<>>
  /\ annotatedNodes = <<>>

\* The call of buildDisplayList.
listVars == <<buildArgs, builtList>>

\* No call of buildDisplayList: no messages, no title, no branch data.
NoBuildArgs == [messages |-> <<>>, title |-> "", branches |-> <<>>]

NotBuilt == [by |-> "none", nodes |-> <<>>]

ListIdle ==
  /\ buildArgs = NoBuildArgs
  /\ builtList = NotBuilt

\* The content script and the panel around handleGetTree.
scriptVars == <<stored, pendingBranch, builds, isRefreshing,
                refreshTimer, panelIsRefreshing, panelTimer, panelRequest,
                clearing, returnedTree,
                saved, unserved, clicks, page, lastContentUrl>>

\* loadBranchData() of an empty storage.
EmptyBranchData == [branches |-> <<>>, titles |-> <<>>]

\* What started an execution of handleGetTree: refreshTree, or the
\* GET_CONVERSATION_TREE message of the panel.
BuildOrigins == {"refresh", "message"}

\* The callers of fetchChatGPTConversation: the executions of handleGetTree,
\* the handler of SWITCH_CHATGPT_BRANCH and handleExportMarkdown.
Callers == BuildOrigins \cup {"switch", "export"}

\* No execution.  Of one that runs: how far it has come, the conversation
\* and the WEB: prefix it read from the URL, its branch data, the
\* pendingBranch it read, the useCache and the retryOnAuthError of its call
\* of fetchChatGPTConversation, and whether chrome.storage.local.get(key)
\* of getCachedConversation found an entry when it was called.
IdleBuild ==
  [pc |-> "idle", conv |-> Null, preBranch |-> FALSE,
   data |-> EmptyBranchData, pending |-> Null, useCache |-> TRUE,
   retryOnAuthError |-> TRUE, cached |-> FALSE]

\* A page of a conversation.
PageOf(conversationId, isPreBranch) ==
  [conv |-> conversationId, preBranch |-> isPreBranch]

NoTree == [origin |-> "none", conversationId |-> Null, nodes |-> <<>>,
           hasAncestry |-> FALSE, preBranch |-> FALSE,
           branchData |-> EmptyBranchData, error |-> FALSE]

\* No click listener of "Clear all branch data" is running.
NotClearing == <<>>

\* The content script and the panel with this branch data stored and this
\* page in the tab: no execution and no listener is under way, the panel is
\* not open, and the refreshTimer is set or not.
ScriptState(data, shown, timerSet) ==
  /\ stored = data
  /\ pendingBranch = Null
  /\ builds = [o \in Callers |-> IdleBuild]
  /\ isRefreshing = FALSE
  /\ refreshTimer = timerSet
  /\ panelIsRefreshing = FALSE
  /\ panelTimer = FALSE
  /\ panelRequest = "closed"
  /\ clearing = NotClearing
  /\ returnedTree = NoTree
  /\ saved = {}
  /\ unserved = timerSet
  /\ clicks = 0
  /\ page = shown
  /\ lastContentUrl = shown

\* No content script and no panel: no page is open.
ScriptIdle == ScriptState(EmptyBranchData, PageOf(Null, FALSE), FALSE)

\* The content script has just been loaded into a page and init() has
\* called scheduleRefresh(100); the panel is not open and nothing is
\* stored.
ScriptLoadedOn(shown) == ScriptState(EmptyBranchData, shown, TRUE)

\* The conversation cache of the content script.
cacheVars == <<memoryCache, cachedInStorage>>

\* A content script just loaded into a browser that cached nothing.
CacheIdle ==
  /\ memoryCache = <<>>
  /\ cachedInStorage = {}

\* The state of the tree view and of the content script outside the graph
\* and outside markTerminalNodes.
viewVars == <<contextVars, listVars, scriptVars, cacheVars>>

\* That state before anything has run.
ViewIdle ==
  /\ ContextIdle
  /\ ListIdle
  /\ ScriptIdle
  /\ CacheIdle

\* The arrays of the tree view, which no call on the graph touches.
displayVars == <<displayNodes, panelNodes, coreNodes>>

\* No array has been handed to markTerminalNodes.
DisplayIdle ==
  /\ displayNodes = <<>>
  /\ panelNodes = <<>>
  /\ coreNodes = <<>>

\* No call whose outcome was looked at has been made yet.
NoCall == [value |-> "none", threw |-> FALSE]

\* new ConversationGraph(), and no call recorded.
GraphIdle ==
  /\ calls = 0
  /\ nodes = <<>>
  /\ nodeKeys = <<>>
  /\ editGroups = <<>>
  /\ groupKeys = <<>>
  /\ parentFirst = TRUE
  /\ listedEarly = {}
  /\ insertedUnder = {}
  /\ validated = FALSE
  /\ errors = <<>>
  /\ conversations = <<>>
  /\ returned = NoCall

\* The graph object as a value.
Graph == [nodes |-> nodes, nodeKeys |-> nodeKeys,
          editGroups |-> editGroups, groupKeys |-> groupKeys,
          conversations |-> conversations]

Range(s) == {s[i] : i \in DOMAIN s}

\* ------------------------------------------------------------- MessageNode

NewMessageNode(id, message) ==
  [id |-> id,
   text |-> message.text,
   role |-> message.role,
   createTime |-> message.createTime,
   parentId |-> IF message.parentId = "" THEN Null ELSE message.parentId,
   childIds |-> {},
   editSiblingIds |-> {},
   conversationIds |-> {},
   isEditVersion |-> FALSE,
   editGroupId |-> Null,
   hasUnknownEdits |-> FALSE]

\* A variant of addToConversation that keeps only the latest conversation.
addToConversationReplace(node, conversationId) ==
  [node EXCEPT !.conversationIds = {conversationId}]

addToConversation(node, conversationId) ==
  [node EXCEPT !.conversationIds = @ \cup {conversationId}]

isShared(node) == Cardinality(node.conversationIds) > 1

\* ---------------------------------------------------------------- addMessage

\* Map.set of a key: a new key goes to the end of the iteration order.
MapSet(f, k, v) == [x \in DOMAIN f \cup {k} |-> IF x = k THEN v ELSE f[x]]

\* A variant of addNewMessage that also collects, as children of the new
\* node, the nodes that already name it as their parent.
addNewMessageBackfill(G, message, conversationId) ==
  LET id == message.id
      node == addToConversation(NewMessageNode(id, message), conversationId)
      waiting == {c \in DOMAIN G.nodes : G.nodes[c].parentId = id}
      registered == MapSet(G.nodes, id, [node EXCEPT !.childIds = waiting])
      linked == IF node.parentId # Null /\ node.parentId \in DOMAIN registered
                THEN [registered EXCEPT ![node.parentId].childIds = @ \cup {id}]
                ELSE registered
  IN [G EXCEPT !.nodes = linked, !.nodeKeys = Append(@, id)]

\* addMessage for an id the graph does not hold (lines 130-141).
addNewMessage(G, message, conversationId) ==
  LET id == message.id
      node == addToConversation(NewMessageNode(id, message), conversationId)
      registered == MapSet(G.nodes, id, node)
      linked == IF node.parentId # Null /\ node.parentId \in DOMAIN registered
                THEN [registered EXCEPT ![node.parentId].childIds = @ \cup {id}]
                ELSE registered
  IN [G EXCEPT !.nodes = linked, !.nodeKeys = Append(@, id)]

\* A variant of addMessage that refreshes the content of a node it already
\* holds from the incoming message.
addMessageOverwriteContent(G, message, conversationId) ==
  IF message.id = "" \/ conversationId = ""
  THEN G
  ELSE IF message.id \in DOMAIN G.nodes
  THEN [G EXCEPT !.nodes[message.id] =
          [addToConversation(@, conversationId) EXCEPT
             !.text = message.text, !.role = message.role,
             !.createTime = message.createTime]]
  ELSE addNewMessage(G, message, conversationId)

\* A variant of addMessage that takes the parent of a node it already holds
\* from the incoming message.
addMessageReparent(G, message, conversationId) ==
  IF message.id = "" \/ conversationId = ""
  THEN G
  ELSE IF message.id \in DOMAIN G.nodes
  THEN [G EXCEPT !.nodes[message.id] =
          [addToConversation(@, conversationId) EXCEPT
             !.parentId = IF message.parentId = "" THEN Null
                          ELSE message.parentId]]
  ELSE addNewMessage(G, message, conversationId)

addMessage(G, message, conversationId) ==
  IF message.id = "" \/ conversationId = ""
  THEN G
  ELSE IF message.id \in DOMAIN G.nodes
  THEN [G EXCEPT !.nodes[message.id] = addToConversation(@, conversationId)]
  ELSE addNewMessage(G, message, conversationId)

\* ---------------------------------------------- addMessage, as it is called

\* The JavaScript values a caller may pass where the code expects a string:
\* the typeof of the value and the value written out.
JsUndefined == [type |-> "undefined", value |-> "undefined"]
JsNull == [type |-> "object", value |-> "null"]
JsString(s) == [type |-> "string", value |-> s]
JsNumber(n) == [type |-> "number", value |-> n]
JsObject == [type |-> "object", value |-> "[object Object]"]

\* !v is false.
Truthy(v) ==
  ~ \/ v.type = "undefined"
    \/ v.value = "null"
    \/ (v.type = "string" /\ v.value = "")
    \/ (v.type = "number" /\ v.value \in {"0", "NaN"})
    \/ (v.type = "boolean" /\ v.value = "false")

\* The message argument: a JavaScript value with, for an object, its id
\* property (undefined when it has none) and its other properties.
NoFields == [id |-> "", parentId |-> Null, text |-> "", role |-> "",
             createTime |-> 0]

MessageArg(v, id, fields) ==
  [type |-> v.type, value |-> v.value, id |-> id, fields |-> fields]

\* The well-formed message objects: the messages of PlainMessages.
ObjectArgs ==
  {MessageArg(JsObject, JsString(m.id), m) : m \in PlainMessages}

\* The message arguments without a usable id: values that are no objects,
\* an array, and objects whose id is missing, null, empty or no string.
BadMessageArgs ==
  {MessageArg(v, JsUndefined, NoFields) :
     v \in {JsUndefined, JsNull, JsString("a"), JsString(""), JsNumber("7"),
            JsNumber("0"), [type |-> "boolean", value |-> "true"],
            [type |-> "function", value |-> "function"],
            [type |-> "object", value |-> "[]"]}}
  \cup {MessageArg(JsObject, id, [m EXCEPT !.id = ""]) :
          id \in {JsUndefined, JsNull, JsString(""), JsNumber("7"),
                  JsNumber("0"), JsObject},
          m \in {n \in PlainMessages : n.id = "a" /\ n.parentId = Null}}

MessageArgs == ObjectArgs \cup BadMessageArgs

ConversationIdArgs ==
  {JsString(c) : c \in PlainConvIds}
  \cup {JsUndefined, JsNull, JsString(""), JsNumber("7"), JsNumber("0"),
         JsObject}

\* What a call leaves: the graph and what the caller gets.
ReturnNull(G) == [graph |-> G, returned |-> [value |-> Null, threw |-> FALSE]]

ReturnNode(G, id) == [graph |-> G, returned |-> [value |-> id, threw |-> FALSE]]

\* The message object the code reads its fields from.
MessageOf(message) == [message.fields EXCEPT !.id = message.id.value]

\* A variant of addMessageCall without the check of conversationId.
addMessageCallAnyConversation(G, message, conversationId) ==
  IF ~Truthy(message) \/ message.type # "object"
  THEN ReturnNull(G)
  ELSE IF ~Truthy(message.id) \/ message.id.type # "string"
  THEN ReturnNull(G)
  ELSE ReturnNode(addMessage(G, MessageOf(message), conversationId.value),
                  message.id.value)

\* addMessage on the values a caller passes (lines 100-142): the three
\* checks of the arguments, then the insertion, returning the node.
addMessageCall(G, message, conversationId) ==
  IF ~Truthy(message) \/ message.type # "object"
  THEN ReturnNull(G)
  ELSE IF ~Truthy(message.id) \/ message.id.type # "string"
  THEN ReturnNull(G)
  ELSE IF ~Truthy(conversationId) \/ conversationId.type # "string"
  THEN ReturnNull(G)
  ELSE ReturnNode(addMessage(G, MessageOf(message), conversationId.value),
                  message.id.value)

SetGraph(G) ==
  /\ nodes' = G.nodes
  /\ nodeKeys' = G.nodeKeys
  /\ editGroups' = G.editGroups
  /\ groupKeys' = G.groupKeys
  /\ conversations' = G.conversations

\* ------------------------------------------------------- processEditVersions

\* The position of an id in lexicographic order (the order Array.sort gives
\* these strings).
Rank(id) == CHOOSE i \in 1..Len(IdSeq) : IdSeq[i] = id

RECURSIVE Insert(_, _)
Insert(sorted, id) ==
  IF sorted = <<>> THEN <<id>>
  ELSE IF Rank(id) < Rank(Head(sorted)) THEN <<id>> \o sorted
  ELSE <<Head(sorted)>> \o Insert(Tail(sorted), id)

\* A variant of Sort that leaves the array in the order given.
SortNone(siblingIds) == siblingIds

\* [...siblingIds].sort()
RECURSIVE Sort(_)
Sort(siblingIds) ==
  IF siblingIds = <<>> THEN <<>>
  ELSE Insert(Sort(Tail(siblingIds)), Head(siblingIds))

\* Set.add on an insertion-ordered set.
SetAdd(members, id) ==
  IF id \in Range(members) THEN members ELSE Append(members, id)

\* A variant of AddSibling that lists the sibling in the group and leaves its
\* node unmarked.
AddSiblingNoMark(G, groupId, sortedSiblings, sibId) ==
  [G EXCEPT !.editGroups[groupId] = SetAdd(@, sibId)]

\* A variant of AddSibling that marks the node with its own id as group id.
AddSiblingOwnKey(G, groupId, sortedSiblings, sibId) ==
  LET grouped == [G EXCEPT !.editGroups[groupId] = SetAdd(@, sibId)]
  IN IF sibId \in DOMAIN G.nodes
     THEN [grouped EXCEPT
             !.nodes[sibId].editGroupId = sibId,
             !.nodes[sibId].isEditVersion = TRUE,
             !.nodes[sibId].editSiblingIds =
                 @ \cup (Range(sortedSiblings) \ {sibId})]
     ELSE grouped

\* The body of the inner loop for one sibId (lines 210-226).
AddSibling(G, groupId, sortedSiblings, sibId) ==
  LET grouped == [G EXCEPT !.editGroups[groupId] = SetAdd(@, sibId)]
  IN IF sibId \in DOMAIN G.nodes
     THEN [grouped EXCEPT
             !.nodes[sibId].editGroupId = groupId,
             !.nodes[sibId].isEditVersion = TRUE,
             !.nodes[sibId].editSiblingIds =
                 @ \cup (Range(sortedSiblings) \ {sibId})]
     ELSE grouped

RECURSIVE AddSiblings(_, _, _, _)
AddSiblings(G, groupId, sortedSiblings, k) ==
  IF k > Len(sortedSiblings) THEN G
  ELSE AddSiblings(AddSibling(G, groupId, sortedSiblings, sortedSiblings[k]),
                   groupId, sortedSiblings, k + 1)

\* The loop over messages from index k on, with the groups already processed
\* in this call.
RECURSIVE ProcessMessages(_, _, _, _)
ProcessMessages(G, messages, k, processedGroups) ==
  IF k > Len(messages) THEN G
  ELSE
    LET msg == messages[k] IN
    IF msg.id = "" \/ Len(msg.siblingIds) <= 1
    THEN ProcessMessages(G, messages, k + 1, processedGroups)
    ELSE
      LET sortedSiblings == Sort(msg.siblingIds)
          groupId == sortedSiblings[1]
      IN IF groupId \in processedGroups
         THEN ProcessMessages(G, messages, k + 1, processedGroups)
         ELSE
           LET created ==
                 IF groupId \in DOMAIN G.editGroups THEN G
                 ELSE [G EXCEPT !.editGroups = MapSet(@, groupId, <<>>),
                                !.groupKeys = Append(@, groupId)]
           IN ProcessMessages(AddSiblings(created, groupId, sortedSiblings, 1),
                              messages, k + 1,
                              processedGroups \cup {groupId})

processChatGPTEdits(G, messages) == ProcessMessages(G, messages, 1, {})

processEditVersions(G, messages, platform) ==
  IF platform = "chatgpt" THEN processChatGPTEdits(G, messages) ELSE G

\* ------------------------------------------------------------ getEditSiblings

\* A variant of getEditSiblings that looks the id up in the groups instead of
\* following the node's editGroupId.
getEditSiblingsByListing(G, messageId) ==
  IF \E g \in DOMAIN G.editGroups : messageId \in Range(G.editGroups[g])
  THEN Range(G.editGroups[CHOOSE g \in DOMAIN G.editGroups :
                            messageId \in Range(G.editGroups[g])])
  ELSE {messageId}

getEditSiblings(G, messageId) ==
  IF messageId = "" THEN {messageId}
  ELSE IF messageId \notin DOMAIN G.nodes THEN {messageId}
  ELSE IF G.nodes[messageId].editGroupId \in {Null, ""} THEN {messageId}
  ELSE IF G.nodes[messageId].editGroupId \in DOMAIN G.editGroups
       THEN Range(G.editGroups[G.nodes[messageId].editGroupId])
       ELSE {messageId}

\* ------------------------------------------------------- conversation paths

\* The values a caller may pass as path, or as the path property of the
\* metadata: an array of ids, a string (its characters), null or undefined.
ArrayOf(items) == [type |-> "array", items |-> items]

StringOf(chars) == [type |-> "string", items |-> chars]

NullPath == [type |-> "null", items |-> <<>>]

UndefinedPath == [type |-> "undefined", items |-> <<>>]

\* The metadata argument: whether the object has a path property of its
\* own, that property, and its title.  Metadata that is undefined, null or
\* {} spreads no property.
MetadataOf(hasPath, path, title) ==
  [hasPath |-> hasPath, path |-> path, title |-> title]

NoMetadata == MetadataOf(FALSE, UndefinedPath, "")

\* { path, ...metadata }: a path property of the metadata replaces path.
ConversationEntry(path, metadata) ==
  [path |-> IF metadata.hasPath THEN metadata.path ELSE path,
   title |-> metadata.title]

setConversationPath(G, conversationId, path, metadata) ==
  IF ~Truthy(conversationId) \/ conversationId.type # "string"
  THEN G
  ELSE IF path.type # "array"
  THEN G
  ELSE [G EXCEPT !.conversations =
          MapSet(@, conversationId.value, ConversationEntry(path, metadata))]

\* conv?.path || [] : a stored path that is null, undefined or the empty
\* string gives []; an array, also an empty one, is returned as it is.
getConversationPath(G, conversationId) ==
  IF ~Truthy(conversationId) \/ conversationId.type # "string"
  THEN ArrayOf(<<>>)
  ELSE IF conversationId.value \notin DOMAIN G.conversations
  THEN ArrayOf(<<>>)
  ELSE LET path == G.conversations[conversationId.value].path
       IN IF path.type \in {"null", "undefined"}
             \/ (path.type = "string" /\ path.items = <<>>)
          THEN ArrayOf(<<>>)
          ELSE path

\* A variant of the loop that goes on after a mismatch.
RECURSIVE LastCommonIndexNoBreak(_, _, _, _)
LastCommonIndexNoBreak(childPath, parentPath, i, divergenceIndex) ==
  IF i >= Len(childPath) \/ i >= Len(parentPath) THEN divergenceIndex
  ELSE LastCommonIndexNoBreak(childPath, parentPath, i + 1,
         IF childPath[i + 1] = parentPath[i + 1] THEN i ELSE divergenceIndex)

\* The loop of findDivergencePoint from index i (0-based) on, with the last
\* index found equal so far (lines 325-335).
RECURSIVE LastCommonIndex(_, _, _, _)
LastCommonIndex(childPath, parentPath, i, divergenceIndex) ==
  IF i >= Len(childPath) \/ i >= Len(parentPath) THEN divergenceIndex
  ELSE IF childPath[i + 1] = parentPath[i + 1]
  THEN LastCommonIndex(childPath, parentPath, i + 1, i)
  ELSE divergenceIndex

\* A variant of findDivergencePoint that returns the first common id.
findDivergencePointFirst(G, childConvId, parentConvId) ==
  IF ~Truthy(childConvId) \/ childConvId.type # "string"
  THEN JsNull
  ELSE IF ~Truthy(parentConvId) \/ parentConvId.type # "string"
  THEN JsNull
  ELSE
    LET childPath == getConversationPath(G, childConvId).items
        parentPath == getConversationPath(G, parentConvId).items
    IN IF Len(childPath) = 0 \/ Len(parentPath) = 0
       THEN JsNull
       ELSE IF LastCommonIndex(childPath, parentPath, 0, -1) >= 0
       THEN JsString(childPath[1])
       ELSE JsNull

\* Returns the id as a JavaScript string, or null.
findDivergencePoint(G, childConvId, parentConvId) ==
  IF ~Truthy(childConvId) \/ childConvId.type # "string"
  THEN JsNull
  ELSE IF ~Truthy(parentConvId) \/ parentConvId.type # "string"
  THEN JsNull
  ELSE
    LET childPath == getConversationPath(G, childConvId).items
        parentPath == getConversationPath(G, parentConvId).items
    IN IF Len(childPath) = 0 \/ Len(parentPath) = 0
       THEN JsNull
       ELSE LET divergenceIndex == LastCommonIndex(childPath, parentPath, 0, -1)
            IN IF divergenceIndex >= 0
               THEN JsString(childPath[divergenceIndex + 1])
               ELSE JsNull

\* Array.prototype.indexOf from index i (0-based) on: -1 when not found.
RECURSIVE IndexOfFrom(_, _, _)
IndexOfFrom(items, id, i) ==
  IF i >= Len(items) THEN -1
  ELSE IF items[i + 1] = id THEN i
  ELSE IndexOfFrom(items, id, i + 1)

\* The characters of a string, one by one, as [...id] lists them: none for
\* the empty string.
Chars(id) == [i \in 1..Len(id) |-> SubSeq(id, i, i)]

\* String.prototype.indexOf from index i (0-based) on: the first index at
\* which the characters searched for stand in the string, -1 when nowhere.
RECURSIVE StringIndexOfFrom(_, _, _)
StringIndexOfFrom(items, chars, i) ==
  IF i + Len(chars) > Len(items) THEN -1
  ELSE IF \A k \in 1..Len(chars) : items[i + k] = chars[k] THEN i
  ELSE StringIndexOfFrom(items, chars, i + 1)

\* path.indexOf(id): of the array, or of the string when the stored path is
\* a string.
IndexOf(path, id) ==
  IF path.type = "string"
  THEN StringIndexOfFrom(path.items, Chars(id), 0)
  ELSE IndexOfFrom(path.items, id, 0)

\* Array.prototype.slice(start), start within 0..length.
Slice(path, start) ==
  [path EXCEPT !.items = SubSeq(@, start + 1, Len(@))]

\* A variant of getUniquePathAfter that keeps the divergence message.
getUniquePathAfterInclusive(G, divergenceMessageId, conversationId) ==
  IF ~Truthy(divergenceMessageId) \/ divergenceMessageId.type # "string"
  THEN ArrayOf(<<>>)
  ELSE IF ~Truthy(conversationId) \/ conversationId.type # "string"
  THEN ArrayOf(<<>>)
  ELSE
    LET path == getConversationPath(G, conversationId)
        divergenceIndex == IndexOf(path, divergenceMessageId.value)
    IN IF divergenceIndex = -1 THEN path
       ELSE Slice(path, divergenceIndex)

getUniquePathAfter(G, divergenceMessageId, conversationId) ==
  IF ~Truthy(divergenceMessageId) \/ divergenceMessageId.type # "string"
  THEN ArrayOf(<<>>)
  ELSE IF ~Truthy(conversationId) \/ conversationId.type # "string"
  THEN ArrayOf(<<>>)
  ELSE
    LET path == getConversationPath(G, conversationId)
        divergenceIndex == IndexOf(path, divergenceMessageId.value)
    IN IF divergenceIndex = -1 THEN path
       ELSE Slice(path, divergenceIndex + 1)

\* ------------------------------------------------------------------ validate

\* A variant of the walk that also marks the path visited when it finds a
\* cycle.
RECURSIVE WalkParentsMarkCycle(_, _, _, _)
WalkParentsMarkCycle(G, currentId, pathSet, visitedGlobal) ==
  IF currentId \in {Null, ""}
  THEN [circularId |-> Null, visitedGlobal |-> visitedGlobal \cup pathSet]
  ELSE IF currentId \in visitedGlobal
  THEN [circularId |-> Null, visitedGlobal |-> visitedGlobal \cup pathSet]
  ELSE IF currentId \in pathSet
  THEN [circularId |-> currentId, visitedGlobal |-> visitedGlobal \cup pathSet]
  ELSE IF currentId \notin DOMAIN G.nodes
          \/ G.nodes[currentId].parentId \in {Null, ""}
  THEN [circularId |-> Null,
        visitedGlobal |-> visitedGlobal \cup pathSet \cup {currentId}]
  ELSE WalkParentsMarkCycle(G, G.nodes[currentId].parentId,
                            pathSet \cup {currentId}, visitedGlobal)

\* The walk of _findCircularPath from currentId with the path walked so far:
\* the id found on a cycle (or null) and the visited set it leaves.
RECURSIVE WalkParents(_, _, _, _)
WalkParents(G, currentId, pathSet, visitedGlobal) ==
  IF currentId \in {Null, ""}
  THEN [circularId |-> Null, visitedGlobal |-> visitedGlobal \cup pathSet]
  ELSE IF currentId \in visitedGlobal
  THEN [circularId |-> Null, visitedGlobal |-> visitedGlobal \cup pathSet]
  ELSE IF currentId \in pathSet
  THEN [circularId |-> currentId, visitedGlobal |-> visitedGlobal]
  ELSE IF currentId \notin DOMAIN G.nodes
          \/ G.nodes[currentId].parentId \in {Null, ""}
  THEN [circularId |-> Null,
        visitedGlobal |-> visitedGlobal \cup pathSet \cup {currentId}]
  ELSE WalkParents(G, G.nodes[currentId].parentId,
                   pathSet \cup {currentId}, visitedGlobal)

\* A variant of _findCircularPath that reports the id it started from.
findCircularPathNamesStart(G, startId, visitedGlobal) ==
  LET found == WalkParents(G, startId, {}, visitedGlobal)
  IN IF found.circularId = Null THEN found
     ELSE [found EXCEPT !.circularId = startId]

findCircularPath(G, startId, visitedGlobal) ==
  WalkParents(G, startId, {}, visitedGlobal)

\* The first loop of validate from the k-th key on.
RECURSIVE OrphanedNodeErrors(_, _)
OrphanedNodeErrors(G, k) ==
  IF k > Len(G.nodeKeys) THEN <<>>
  ELSE
    LET id == G.nodeKeys[k]
        node == G.nodes[id]
    IN (IF node.parentId \notin {Null, ""} /\ node.parentId \notin DOMAIN G.nodes
        THEN <<[type |-> "orphaned_node", messageId |-> id,
                missingParent |-> node.parentId]>>
        ELSE <<>>) \o OrphanedNodeErrors(G, k + 1)

\* The second loop of validate.
RECURSIVE ParentChildErrors(_, _)
ParentChildErrors(G, k) ==
  IF k > Len(G.nodeKeys) THEN <<>>
  ELSE
    LET id == G.nodeKeys[k]
        node == G.nodes[id]
    IN (IF /\ node.parentId \notin {Null, ""}
           /\ node.parentId \in DOMAIN G.nodes
           /\ id \notin G.nodes[node.parentId].childIds
        THEN <<[type |-> "inconsistent_parent_child", messageId |-> id,
                parentId |-> node.parentId]>>
        ELSE <<>>) \o ParentChildErrors(G, k + 1)

\* The third loop of validate, with the visited set shared by its walks.
RECURSIVE CircularErrors(_, _, _)
CircularErrors(G, k, visitedGlobal) ==
  IF k > Len(G.nodeKeys) THEN <<>>
  ELSE
    LET id == G.nodeKeys[k] IN
    IF id \in visitedGlobal THEN CircularErrors(G, k + 1, visitedGlobal)
    ELSE
      LET found == findCircularPath(G, id, visitedGlobal) IN
      (IF found.circularId # Null
       THEN <<[type |-> "circular_reference", messageId |-> found.circularId]>>
       ELSE <<>>) \o CircularErrors(G, k + 1, found.visitedGlobal)

\* The members of one edit group from the j-th on (the inner loop of the
\* fourth loop).
RECURSIVE GroupMemberErrors(_, _, _)
GroupMemberErrors(G, groupId, j) ==
  IF j > Len(G.editGroups[groupId]) THEN <<>>
  ELSE
    LET sibId == G.editGroups[groupId][j] IN
    (IF sibId \notin DOMAIN G.nodes
     THEN <<[type |-> "missing_edit_sibling", editGroupId |-> groupId,
             missingMessageId |-> sibId]>>
     ELSE IF G.nodes[sibId].editGroupId # groupId
     THEN <<[type |-> "edit_group_mismatch", messageId |-> sibId,
             expectedGroup |-> groupId,
             actualGroup |-> G.nodes[sibId].editGroupId]>>
     ELSE <<>>) \o GroupMemberErrors(G, groupId, j + 1)

RECURSIVE EditGroupErrors(_, _)
EditGroupErrors(G, k) ==
  IF k > Len(G.groupKeys) THEN <<>>
  ELSE GroupMemberErrors(G, G.groupKeys[k], 1) \o EditGroupErrors(G, k + 1)

\* The fifth loop of validate.
RECURSIVE OrphanedGroupErrors(_, _)
OrphanedGroupErrors(G, k) ==
  IF k > Len(G.nodeKeys) THEN <<>>
  ELSE
    LET id == G.nodeKeys[k]
        node == G.nodes[id]
    IN (IF node.editGroupId \notin {Null, ""}
           /\ node.editGroupId \notin DOMAIN G.editGroups
        THEN <<[type |-> "orphaned_edit_group", messageId |-> id,
                editGroupId |-> node.editGroupId]>>
        ELSE <<>>) \o OrphanedGroupErrors(G, k + 1)

\* A variant of validate that returns at the first check that finds errors.
validateFirstClassOnly(G) ==
  IF OrphanedNodeErrors(G, 1) # <<>> THEN OrphanedNodeErrors(G, 1)
  ELSE IF ParentChildErrors(G, 1) # <<>> THEN ParentChildErrors(G, 1)
  ELSE IF CircularErrors(G, 1, {}) # <<>> THEN CircularErrors(G, 1, {})
  ELSE IF EditGroupErrors(G, 1) # <<>> THEN EditGroupErrors(G, 1)
  ELSE OrphanedGroupErrors(G, 1)

validate(G) ==
  OrphanedNodeErrors(G, 1) \o ParentChildErrors(G, 1)
    \o CircularErrors(G, 1, {}) \o EditGroupErrors(G, 1)
    \o OrphanedGroupErrors(G, 1)

\* --------------------------------------------------------- markTerminalNodes

\* a === b of two values: the same value, other than NaN.
StrictEquals(a, b) == a = b /\ a # NaN

\* a === b || (a === undefined && b === undefined), of two colorIndex
\* values.
SameColorIndex(a, b) ==
  StrictEquals(a, b) \/ (a = Undefined /\ b = Undefined)

\* node.isTerminal = b
SetTerminal(node, b) ==
  [type |-> node.type, colorIndex |-> node.colorIndex,
   expanded |-> node.expanded, isTerminal |-> b]

\* A variant of hasSameContextContinuation that stops at the first node of
\* another context.
RECURSIVE hasSameContextContinuationEarlyBreak(_, _, _)
hasSameContextContinuationEarlyBreak(ns, j, colorIndex) ==
  IF j >= Len(ns) THEN FALSE
  ELSE IF ns[j + 1].type = "branch"
  THEN hasSameContextContinuationEarlyBreak(ns, j + 1, colorIndex)
  ELSE SameColorIndex(colorIndex, ns[j + 1].colorIndex)

\* The panel's hasSameContextContinuation from index j (0-based) on.
RECURSIVE hasSameContextContinuation(_, _, _)
hasSameContextContinuation(ns, j, colorIndex) ==
  IF j >= Len(ns) THEN FALSE
  ELSE IF ns[j + 1].type = "branch"
  THEN hasSameContextContinuation(ns, j + 1, colorIndex)
  ELSE IF SameColorIndex(colorIndex, ns[j + 1].colorIndex)
  THEN TRUE
  ELSE hasSameContextContinuation(ns, j + 1, colorIndex)

\* The panel's scan after a collapsed branch, from index j (0-based) on:
\* mainContinues.
RECURSIVE MainContinues(_, _)
MainContinues(ns, j) ==
  IF j >= Len(ns) THEN FALSE
  ELSE IF ns[j + 1].type = "branch" THEN MainContinues(ns, j + 1)
  ELSE IF ns[j + 1].colorIndex # Undefined THEN MainContinues(ns, j + 1)
  ELSE TRUE

\* A variant of the panel's loop body that looks for the last node first.
PanelTerminalLastFirst(ns, i) ==
  LET node == ns[i + 1] IN
  IF i + 1 >= Len(ns) THEN TRUE
  ELSE IF node.type = "editBranch" THEN TRUE
  ELSE IF node.type = "branch"
  THEN (IF node.expanded THEN FALSE ELSE ~MainContinues(ns, i + 1))
  ELSE IF ns[i + 2].type = "branch"
  THEN ~hasSameContextContinuation(ns, i + 1, node.colorIndex)
  ELSE ~SameColorIndex(node.colorIndex, ns[i + 2].colorIndex)

\* The body of the panel's loop for index i (0-based): the isTerminal it
\* gives nodes[i].
PanelTerminal(ns, i) ==
  LET node == ns[i + 1] IN
  IF node.type = "editBranch" THEN TRUE
  ELSE IF node.type = "branch"
  THEN (IF node.expanded THEN FALSE ELSE ~MainContinues(ns, i + 1))
  ELSE IF i + 1 >= Len(ns) THEN TRUE
  ELSE IF ns[i + 2].type = "branch"
  THEN ~hasSameContextContinuation(ns, i + 1, node.colorIndex)
  ELSE ~SameColorIndex(node.colorIndex, ns[i + 2].colorIndex)

\* The panel's markTerminalNodes: no step of the loop reads an isTerminal.
panelMarkTerminalNodes(ns) ==
  [k \in 1..Len(ns) |-> SetTerminal(ns[k], PanelTerminal(ns, k - 1))]

\* The body of the core tree builder's loop for index i (0-based).
CoreTerminal(ns, i) ==
  LET node == ns[i + 1] IN
  IF i + 1 >= Len(ns) THEN TRUE
  ELSE IF node.type = "branch" THEN ~node.expanded
  ELSE ~ /\ ns[i + 2].type # "branch"
         /\ SameColorIndex(node.colorIndex, ns[i + 2].colorIndex)

\* The markTerminalNodes the core tree builder exports.
coreMarkTerminalNodes(ns) ==
  [k \in 1..Len(ns) |-> SetTerminal(ns[k], CoreTerminal(ns, k - 1))]

\* ------------------------------------------------ annotateContextContinuations

\* node.depth ?? 0: the number 0 for undefined and for null.
DepthOrZero(node) ==
  IF node.depth \in {Undefined, Null} THEN "0" ELSE node.depth

\* A value as a template string writes it: the string '0' like the number.
Written(value) == IF value = StringZero THEN "0" ELSE value

\* `${node.depth ?? 0}|${node.colorIndex ?? 'main'}`
makeKey(node) ==
  Written(DepthOrZero(node)) \o "|"
    \o (IF node.colorIndex \in {Undefined, Null} THEN "main"
        ELSE Written(node.colorIndex))

shouldTrack(node) == node.type # "branch"

\* A variant of hasSameContextAfter that compares the colorIndex alone.
RECURSIVE hasSameContextAfterIgnoringDepth(_, _, _)
hasSameContextAfterIgnoringDepth(ns, j, referenceNode) ==
  IF j >= Len(ns) THEN FALSE
  ELSE IF ns[j + 1].type = "branch"
  THEN hasSameContextAfterIgnoringDepth(ns, j + 1, referenceNode)
  ELSE IF StrictEquals(referenceNode.colorIndex, ns[j + 1].colorIndex)
  THEN TRUE
  ELSE hasSameContextAfterIgnoringDepth(ns, j + 1, referenceNode)

\* A variant of hasSameContextAfter that compares the keys of makeKey.
RECURSIVE hasSameContextAfterByKey(_, _, _)
hasSameContextAfterByKey(ns, j, referenceNode) ==
  IF j >= Len(ns) THEN FALSE
  ELSE IF ns[j + 1].type = "branch"
  THEN hasSameContextAfterByKey(ns, j + 1, referenceNode)
  ELSE IF makeKey(ns[j + 1]) = makeKey(referenceNode)
  THEN TRUE
  ELSE hasSameContextAfterByKey(ns, j + 1, referenceNode)

\* The panel's hasSameContextAfter from index j (0-based) on.
RECURSIVE hasSameContextAfter(_, _, _)
hasSameContextAfter(ns, j, referenceNode) ==
  IF j >= Len(ns) THEN FALSE
  ELSE IF ns[j + 1].type = "branch"
  THEN hasSameContextAfter(ns, j + 1, referenceNode)
  ELSE IF /\ StrictEquals(DepthOrZero(ns[j + 1]), DepthOrZero(referenceNode))
          /\ \/ StrictEquals(referenceNode.colorIndex, ns[j + 1].colorIndex)
             \/ /\ referenceNode.colorIndex = Undefined
                /\ ns[j + 1].colorIndex = Undefined
  THEN TRUE
  ELSE hasSameContextAfter(ns, j + 1, referenceNode)

\* node.hasPrevContext = b
WithPrevContext(node, b) ==
  [type |-> node.type, depth |-> node.depth, colorIndex |-> node.colorIndex,
   hasPrevContext |-> b]

\* node.hasNextContext = b, on a node the first pass has annotated
WithNextContext(node, b) ==
  [type |-> node.type, depth |-> node.depth, colorIndex |-> node.colorIndex,
   hasPrevContext |-> node.hasPrevContext, hasNextContext |-> b]

\* The first loop from index i (0-based) on, with the keys seen so far.
RECURSIVE PrevContextPass(_, _, _)
PrevContextPass(ns, i, seen) ==
  IF i >= Len(ns) THEN <<>>
  ELSE
    LET node == ns[i + 1] IN
    IF ~shouldTrack(node)
    THEN <<node>> \o PrevContextPass(ns, i + 1, seen)
    ELSE <<WithPrevContext(node, makeKey(node) \in seen)>>
           \o PrevContextPass(ns, i + 1, seen \cup {makeKey(node)})

\* The second loop: each node that is tracked scans the nodes after it.
NextContextPass(ns) ==
  [k \in 1..Len(ns) |->
     IF ~shouldTrack(ns[k]) THEN ns[k]
     ELSE WithNextContext(ns[k], hasSameContextAfter(ns, k, ns[k]))]

annotateContextContinuations(ns) ==
  NextContextPass(PrevContextPass(ns, 0, {}))

\* ----------------------------------------------------------- buildDisplayList

\* toSeconds(ts): 0 for a missing or non-positive timestamp, ts / 1000 for
\* one above 1e12, ts otherwise.
toSeconds(ts) ==
  IF ts.k <= 0 THEN Zero
  ELSE IF Greater(ts, Trillion) THEN Thousandth(ts)
  ELSE ts

Front(items) == SubSeq(items, 1, Len(items) - 1)

Last(items) == items[Len(items)]

\* A variant of InsertByTime that places an item before the items of its
\* own time.
RECURSIVE InsertByTimeBeforeTies(_, _)
InsertByTimeBeforeTies(sorted, item) ==
  IF sorted = <<>> THEN <<item>>
  ELSE IF ~Greater(toSeconds(item.createTime), toSeconds(Last(sorted).createTime))
  THEN Append(InsertByTimeBeforeTies(Front(sorted), item), Last(sorted))
  ELSE Append(sorted, item)

\* The place of one more item in an array sorted with the comparator
\* (a, b) => toSeconds(a.createTime) - toSeconds(b.createTime): behind
\* every item that does not compare greater (Array.prototype.sort is stable).
RECURSIVE InsertByTime(_, _)
InsertByTime(sorted, item) ==
  IF sorted = <<>> THEN <<item>>
  ELSE IF Greater(toSeconds(Last(sorted).createTime), toSeconds(item.createTime))
  THEN Append(InsertByTime(Front(sorted), item), Last(sorted))
  ELSE Append(sorted, item)

\* items.sort((a, b) => toSeconds(a.createTime) - toSeconds(b.createTime))
RECURSIVE SortByTime(_)
SortByTime(items) ==
  IF items = <<>> THEN <<>>
  ELSE InsertByTime(SortByTime(Front(items)), Last(items))

RECURSIVE InsertByRawTime(_, _)
InsertByRawTime(sorted, item) ==
  IF sorted = <<>> THEN <<item>>
  ELSE IF Greater(Last(sorted).createTime, item.createTime)
  THEN Append(InsertByRawTime(Front(sorted), item), Last(sorted))
  ELSE Append(sorted, item)

\* branchNodes.sort((a, b) => a.createTime - b.createTime)
RECURSIVE SortByRawTime(_)
SortByRawTime(items) ==
  IF items = <<>> THEN <<>>
  ELSE InsertByRawTime(SortByRawTime(Front(items)), Last(items))

\* The title node; it has no role and no createTime.
TitleNode(title, conversationId) ==
  [id |-> "title-node", type |-> "title", text |-> title, role |-> Undefined,
   createTime |-> Undefined, depth |-> "0",
   targetConversationId |-> conversationId]

TitleNodes(title, conversationId) ==
  IF title # "" THEN <<TitleNode(title, conversationId)>> ELSE <<>>

\* The node of a branch record; the text is left out of the model.
BranchNode(branch) ==
  [id |-> "branch:" \o branch.childId, type |-> "branch", text |-> Undefined,
   role |-> Undefined, createTime |-> toSeconds(branch.createdAt),
   depth |-> "1", targetConversationId |-> branch.childId]

BranchNodesOf(branches) == [i \in 1..Len(branches) |-> BranchNode(branches[i])]

IsUser(m) == m.role = "user"

\* core/storage.js: the message node built of a user message.
CoreMessageNode(msg, conversationId) ==
  [id |-> msg.id, type |-> "message", text |-> Undefined, role |-> msg.role,
   createTime |-> toSeconds(msg.createTime), depth |-> "0",
   targetConversationId |-> conversationId]

\* core/storage.js buildDisplayList(messages, {conversationId, title,
\* branchData}); branches is branchData.branches[conversationId], <<>> when
\* there is no such entry.
coreBuildDisplayList(messages, conversationId, title, branches) ==
  LET userMessages == SortByTime(SelectSeq(messages, IsUser))
      messageNodes == [i \in 1..Len(userMessages) |->
                         CoreMessageNode(userMessages[i], conversationId)]
      branchNodes == SortByRawTime(BranchNodesOf(branches))
      allItems == SortByTime(messageNodes \o branchNodes)
  IN  IF branches # <<>>
      THEN TitleNodes(title, conversationId) \o allItems
      ELSE TitleNodes(title, conversationId) \o messageNodes

IsEditBranch(m) == m.type = "editBranch"

IsRegularUser(m) == m.type # "editBranch" /\ m.role = "user"

\* An extracted message as an item of allItems: its own properties, and no
\* targetConversationId yet.
ItemOf(msg) ==
  [id |-> msg.id, type |-> msg.type, text |-> Undefined, role |-> msg.role,
   createTime |-> msg.createTime, depth |-> msg.depth,
   targetConversationId |-> Undefined]

\* content.js: the node pushed for an item of allItems.
ContentNode(item, conversationId) ==
  IF item.type = "branch" THEN [item EXCEPT !.depth = "1"]
  ELSE IF item.type = "editBranch"
  THEN [item EXCEPT !.targetConversationId = conversationId]
  ELSE [item EXCEPT !.type = "message", !.depth = "0",
                    !.targetConversationId = conversationId]

\* content.js buildDisplayList(messages, branchData, conversationId, title)
contentBuildDisplayList(messages, branches, conversationId, title) ==
  LET editBranches == SelectSeq(messages, IsEditBranch)
      userMessages == SelectSeq(messages, IsRegularUser)
      items(ms) == [i \in 1..Len(ms) |-> ItemOf(ms[i])]
      allItems == SortByTime(items(userMessages) \o BranchNodesOf(branches)
                               \o items(editBranches))
  IN  TitleNodes(title, conversationId)
        \o [i \in 1..Len(allItems) |-> ContentNode(allItems[i], conversationId)]

\* ------------------------------------------------- branch data, handleGetTree

\* branchData.branches is written as the array of its entries
\* [parentId, branches] in key order, branchData.titles as a function.

\* The index of the entry of a parent, 0 when it has none.
EntryOf(data, parentId) ==
  IF \E i \in 1..Len(data.branches) : data.branches[i].parentId = parentId
  THEN CHOOSE i \in 1..Len(data.branches) : data.branches[i].parentId = parentId
  ELSE 0

\* branchData.branches?.[parentId] || []
BranchesUnder(data, parentId) ==
  IF EntryOf(data, parentId) = 0 THEN <<>>
  ELSE data.branches[EntryOf(data, parentId)].branches

\* branches.findIndex((branch) => branch.childId === childId), from 1; 0
\* when there is none.
ChildIndex(branches, childId) ==
  IF \E i \in 1..Len(branches) : branches[i].childId = childId
  THEN CHOOSE i \in 1..Len(branches) :
         /\ branches[i].childId = childId
         /\ \A j \in 1..(i - 1) : branches[j].childId # childId
  ELSE 0

NoParentInfo == [parentId |-> Null, branchIndex |-> -1]

RECURSIVE findParentBranchFrom(_, _, _)
findParentBranchFrom(entries, childId, i) ==
  IF i > Len(entries) THEN NoParentInfo
  ELSE IF ChildIndex(entries[i].branches, childId) > 0
  THEN [parentId |-> entries[i].parentId,
        branchIndex |-> ChildIndex(entries[i].branches, childId) - 1]
  ELSE findParentBranchFrom(entries, childId, i + 1)

\* findParentBranch(branchData, childId): the first entry that lists the child.
findParentBranch(data, childId) == findParentBranchFrom(data.branches, childId, 1)

\* branchData.titles[id] = title
SetTitle(data, id, title) ==
  [data EXCEPT !.titles =
     [x \in (DOMAIN data.titles) \cup {id} |->
        IF x = id THEN title ELSE data.titles[x]]]

\* branchData.titles?.[parentId] || 'Conversation'
ParentTitle(data, parentId) ==
  IF parentId \in DOMAIN data.titles THEN data.titles[parentId]
  ELSE "Conversation"

\* checkPendingBranch, "Record branch": the entry of the parent is made when
\* missing, and the child is pushed unless the entry lists it.
RecordBranch(data, parentId, childId, createdAt) ==
  LET entries == IF EntryOf(data, parentId) = 0
                 THEN Append(data.branches,
                             [parentId |-> parentId, branches |-> <<>>])
                 ELSE data.branches
      e == CHOOSE i \in 1..Len(entries) : entries[i].parentId = parentId
  IN  [data EXCEPT !.branches =
         IF ChildIndex(entries[e].branches, childId) > 0 THEN entries
         ELSE [entries EXCEPT ![e].branches =
                 Append(@, [childId |-> childId, createdAt |-> createdAt])]]

\* checkPendingBranch from "Record branch" to its save: the record of the
\* child under the parent, and the title of the child.
Recorded(data, parentId, childId) ==
  SetTitle(RecordBranch(data, parentId, childId, ClickTime), childId,
           TitleOf(childId))

\* At most this many recordings and title updates make the branch data a
\* node list is built of.
MaxRecordings == 3

\* The branch data after at most n steps, each the recording of a branch
\* by checkPendingBranch or the title update of handleGetTree.
RECURSIVE BranchDataAfter(_)
BranchDataAfter(n) ==
  IF n = 0 THEN {EmptyBranchData}
  ELSE LET before == BranchDataAfter(n - 1)
           records == {r \in BranchIds \X BranchIds : r[1] # r[2]}
       IN before
            \cup {Recorded(data, r[1], r[2]) : data \in before, r \in records}
            \cup {SetTitle(data, id, TitleOf(id)) :
                    data \in before, id \in BranchIds}

\* content.js buildBranchContextNodes: a branch node of the parent.
ContextBranchNode(branch, idx, currentConversationId) ==
  [id |-> "branch:" \o branch.childId, type |-> "branch",
   createTime |-> toSeconds(branch.createdAt),
   targetConversationId |-> branch.childId, branchIndex |-> idx,
   depth |-> "1", isViewing |-> (branch.childId = currentConversationId)]

\* core/chatgpt-branch-utils.js buildBranchContextNodes: a branch node of
\* the parent; createTime is branch.createdAt || 0.
CoreContextBranchNode(branch, idx, currentConversationId) ==
  [id |-> "branch:" \o branch.childId, type |-> "branch",
   createTime |-> branch.createdAt,
   targetConversationId |-> branch.childId, branchIndex |-> idx,
   depth |-> "1", isViewing |-> (branch.childId = currentConversationId)]

\* A variant of the branch node that is marked as viewed whatever its child.
ContextBranchNodeAllViewing(branch, idx, currentConversationId) ==
  [id |-> "branch:" \o branch.childId, type |-> "branch",
   createTime |-> branch.createdAt,
   targetConversationId |-> branch.childId, branchIndex |-> idx,
   depth |-> "1", isViewing |-> TRUE]

AncestorTitle(data, parentId) ==
  [id |-> "ancestor-title:" \o parentId, type |-> "ancestor-title",
   text |-> ParentTitle(data, parentId), depth |-> "0",
   targetConversationId |-> parentId, isMainViewing |-> FALSE]

BranchRoot(data, parentId) ==
  [id |-> "branch-root:" \o parentId, type |-> "branchRoot",
   text |-> ParentTitle(data, parentId), depth |-> "0",
   targetConversationId |-> parentId]

\* buildBranchContextNodes({branchData, parentId, currentConversationId}),
\* with the branch node given; ancestorTitle and branchRoot are arrays of
\* one node, empty for null.
BranchContextWith(data, parentId, currentConversationId, Node(_, _, _)) ==
  IF parentId = Null
  THEN [ancestorTitle |-> <<>>, branchRoot |-> <<>>, branchNodes |-> <<>>]
  ELSE [ancestorTitle |-> <<AncestorTitle(data, parentId)>>,
        branchRoot |-> <<BranchRoot(data, parentId)>>,
        branchNodes |->
          [i \in 1..Len(BranchesUnder(data, parentId)) |->
             Node(BranchesUnder(data, parentId)[i], i - 1,
                  currentConversationId)]]

\* content.js buildBranchContextNodes
buildBranchContextNodes(data, parentId, currentConversationId) ==
  BranchContextWith(data, parentId, currentConversationId, ContextBranchNode)

\* A variant of the core buildBranchContextNodes that marks every branch
\* node as viewed.
coreBuildBranchContextNodesAllViewing(data, parentId, currentConversationId) ==
  BranchContextWith(data, parentId, currentConversationId,
                    ContextBranchNodeAllViewing)

\* core/chatgpt-branch-utils.js buildBranchContextNodes
coreBuildBranchContextNodes(data, parentId, currentConversationId) ==
  BranchContextWith(data, parentId, currentConversationId,
                    CoreContextBranchNode)

CurrentTitleNode(conversationId) ==
  [id |-> "current-title:" \o conversationId, type |-> "current-title",
   text |-> TitleOf(conversationId), depth |-> "0",
   targetConversationId |-> conversationId, isMainViewing |-> TRUE]

Indicator ==
  [id |-> "pre-branch-indicator", type |-> "preBranchIndicator",
   depth |-> "0", isPersistent |-> TRUE]

IsTitleNode(node) == node.type \in {"current-title", "title", "ancestor-title"}

\* nodes.findIndex(...) of the first title node, from 1; 0 when there is none.
InsertAfterIndex(ns) ==
  IF \E i \in 1..Len(ns) : IsTitleNode(ns[i])
  THEN CHOOSE i \in 1..Len(ns) :
         IsTitleNode(ns[i]) /\ \A j \in 1..(i - 1) : ~IsTitleNode(ns[j])
  ELSE 0

\* A variant of WithIndicator that puts the indicator behind the last title
\* node.
WithIndicatorBehindLastTitle(ns) ==
  LET titles == {i \in 1..Len(ns) : IsTitleNode(ns[i])}
      last == IF titles = {} THEN 0
              ELSE CHOOSE i \in titles : \A j \in titles : j <= i
  IN  SubSeq(ns, 1, last) \o <<Indicator>> \o SubSeq(ns, last + 1, Len(ns))

\* nodes.splice(insertAfterIndex + 1, 0, indicator), or nodes.unshift(indicator)
WithIndicator(ns) ==
  SubSeq(ns, 1, InsertAfterIndex(ns)) \o <<Indicator>>
    \o SubSeq(ns, InsertAfterIndex(ns) + 1, Len(ns))

\* handleGetTree, "Build display list" to the return: the nodes and
\* hasAncestry, of the branch data, the conversation and its messages.
TreeOf(data, conversationId, isPreBranch, messages) ==
  LET title == TitleOf(conversationId)
      parentInfo == findParentBranch(data, conversationId)
      hasParent == parentInfo.parentId # Null
      baseNodes == contentBuildDisplayList(messages,
                     BranchesUnder(data, conversationId), conversationId,
                     IF hasParent THEN "" ELSE title)
      context == buildBranchContextNodes(data, parentInfo.parentId,
                                         conversationId)
      ns == IF hasParent
            THEN context.ancestorTitle \o context.branchRoot
                   \o context.branchNodes
                   \o <<CurrentTitleNode(conversationId)>> \o baseNodes
            ELSE baseNodes
  IN  [conversationId |-> conversationId,
       nodes |-> IF isPreBranch THEN WithIndicator(ns) ELSE ns,
       hasAncestry |-> hasParent,
       preBranch |-> isPreBranch]

\* ----------------------------------------------------------------- actions

AddMessageFrom(messages, conversationIds) ==
  \E message \in messages, conversationId \in conversationIds :
    /\ SetGraph(addMessage(Graph, message, conversationId))
    /\ parentFirst' = (parentFirst /\ (message.parentId \in {Null, ""}
                                        \/ message.parentId \in DOMAIN nodes))
    /\ insertedUnder' = insertedUnder \cup {<<message.id, conversationId>>}
    /\ UNCHANGED <<listedEarly, validated, errors, returned>>
    /\ UNCHANGED <<displayVars, viewVars>>

\* addMessage with any content under any conversation.
AddAnyMessage ==
  /\ AddMessageFrom(Messages, ConvIds)
  /\ UNCHANGED calls

AddMessage ==
  /\ calls < MaxCalls
  /\ calls' = calls + 1
  /\ AddMessageFrom(PlainMessages, PlainConvIds)

\* addMessage on what a caller passes, well-formed or not; the caller keeps
\* what it returns.
AddCheckedMessage ==
  \E message \in MessageArgs, conversationId \in ConversationIdArgs :
    LET call == addMessageCall(Graph, message, conversationId)
        accepted == call.returned.value # Null
    IN /\ calls < MaxCalls
       /\ calls' = calls + 1
       /\ SetGraph(call.graph)
       /\ returned' = call.returned
       /\ parentFirst' =
            (parentFirst /\ (~accepted
                               \/ message.fields.parentId \in {Null, ""}
                               \/ message.fields.parentId \in DOMAIN nodes))
       /\ insertedUnder' =
            insertedUnder \cup (IF accepted
                                THEN {<<message.id.value, conversationId.value>>}
                                ELSE {})
       /\ UNCHANGED <<listedEarly, validated, errors>>
       /\ UNCHANGED <<displayVars, viewVars>>

\* The ids a call lists in a group it processes while they have no node.
RECURSIVE ListedWithoutNode(_, _, _, _)
ListedWithoutNode(G, messages, k, processedGroups) ==
  IF k > Len(messages) THEN {}
  ELSE
    LET msg == messages[k]
        sortedSiblings == Sort(msg.siblingIds)
    IN IF msg.id = "" \/ Len(msg.siblingIds) <= 1
          \/ sortedSiblings[1] \in processedGroups
       THEN ListedWithoutNode(G, messages, k + 1, processedGroups)
       ELSE (Range(sortedSiblings) \ DOMAIN G.nodes)
              \cup ListedWithoutNode(G, messages, k + 1,
                                     processedGroups \cup {sortedSiblings[1]})

ProcessEditVersionsOf(messageLists) ==
  \E messages \in messageLists, platform \in Platforms :
    /\ calls < MaxCalls
    /\ calls' = calls + 1
    /\ SetGraph(processEditVersions(Graph, messages, platform))
    /\ listedEarly' = listedEarly \cup
         (IF platform = "chatgpt"
          THEN ListedWithoutNode(Graph, messages, 1, {}) ELSE {})
    /\ UNCHANGED <<parentFirst, insertedUnder, validated, errors, returned>>
    /\ UNCHANGED <<displayVars, viewVars>>

ProcessEditVersions == ProcessEditVersionsOf(EditMessageLists)

\* processEditVersions on one message, for the runs that mix the calls.
ProcessOneEditVersion ==
  ProcessEditVersionsOf({<<m>> : m \in EditMessages})

SetConversationPathFrom(conversationIds, paths, metadatas) ==
  \E conversationId \in conversationIds, path \in paths,
     metadata \in metadatas :
    /\ SetGraph(setConversationPath(Graph, conversationId, path, metadata))
    /\ UNCHANGED <<parentFirst, listedEarly, insertedUnder, validated,
                   errors, returned>>
    /\ UNCHANGED <<displayVars, viewVars>>

\* The arguments of setConversationPath: conversation ids that are strings
\* or not, paths that are arrays or not, metadata with and without a path
\* property of its own.
PathConvIdArgs ==
  {JsString("c1"), JsString("c2"), JsString(""), JsNull, JsNumber("7")}

PathArgs ==
  {ArrayOf(p) : p \in Paths}
  \cup {NullPath, UndefinedPath, StringOf(<<"a", "b">>)}

MetadataArgs ==
  { NoMetadata,
    MetadataOf(FALSE, UndefinedPath, "t"),
    MetadataOf(TRUE, NullPath, ""),
    MetadataOf(TRUE, ArrayOf(<<"b">>), ""),
    MetadataOf(TRUE, StringOf(<<"a", "b">>), ""),
    MetadataOf(TRUE, StringOf(<<"a", "b", "c">>), "") }

SetAnyConversationPath ==
  /\ SetConversationPathFrom(PathConvIdArgs, PathArgs, MetadataArgs)
  /\ UNCHANGED calls

\* One conversation and two paths, for the runs that mix the calls.
SetConversationPath ==
  /\ calls < MaxCalls
  /\ calls' = calls + 1
  /\ SetConversationPathFrom({JsString("c1"), JsNull},
                             {ArrayOf(<<"a", "b">>), ArrayOf(<<>>), NullPath},
                             {NoMetadata})

\* One validate() call; the graph is left as it is.
Validate ==
  /\ ~validated
  /\ validated' = TRUE
  /\ errors' = validate(Graph)
  /\ UNCHANGED <<calls, nodes, nodeKeys, editGroups, groupKeys, parentFirst,
                 listedEarly, insertedUnder, conversations, returned>>
  /\ UNCHANGED <<displayVars, viewVars>>

Init ==
  /\ calls = 0
  /\ nodes = <<>>
  /\ nodeKeys = <<>>
  /\ editGroups = <<>>
  /\ groupKeys = <<>>
  /\ parentFirst = TRUE
  /\ listedEarly = {}
  /\ insertedUnder = {}
  /\ validated = FALSE
  /\ errors = <<>>
  /\ conversations = <<>>
  /\ returned = NoCall
  /\ displayNodes = <<>>
  /\ panelNodes = <<>>
  /\ coreNodes = <<>>
  /\ ViewIdle

\* The runs of addMessage and processEditVersions, at most MaxCalls calls.
Next == AddMessage \/ ProcessEditVersions

Spec == Init /\ [][Next]_vars

\* ------------------------------------------- validate() on any graph object

\* The fields of a graph object are public: validate() is also checked on
\* graphs no sequence of calls builds.  These have nodes among "a" and "b",
\* may name "c", which has no node, and take every combination of parentId,
\* childIds (none or all), editGroupId and edit groups below.
ArbitraryIds == {"a", "b"}

ArbitraryNodesOf(id) ==
  { [NewMessageNode(id, [text |-> "hello", role |-> "user", createTime |-> 10,
                         parentId |-> p])
       EXCEPT !.childIds = ch, !.editGroupId = eg, !.isEditVersion = (eg # Null)] :
      p \in {Null, "a", "b", "c"}, ch \in {{}, ArbitraryIds},
      eg \in {Null, "a", "b"} }

ArbitraryNodeMaps ==
  UNION { {f \in [D -> UNION {ArbitraryNodesOf(i) : i \in D}] :
             \A i \in D : f[i].id = i} : D \in SUBSET ArbitraryIds }

ArbitraryMemberLists == { <<"a">>, <<"b">>, <<"a", "b">>, <<"b", "c">> }

ArbitraryGroupMaps ==
  UNION { [D -> ArbitraryMemberLists] : D \in SUBSET ArbitraryIds }

\* The orders in which a Map may hold the keys of f.
KeyOrders(f) ==
  {o \in UNION {[1..n -> DOMAIN f] : n \in {Cardinality(DOMAIN f)}} :
     Range(o) = DOMAIN f}

InitValidate ==
  /\ calls = 0
  /\ nodes \in ArbitraryNodeMaps
  /\ nodeKeys \in KeyOrders(nodes)
  /\ editGroups \in ArbitraryGroupMaps
  /\ groupKeys \in KeyOrders(editGroups)
  /\ parentFirst = FALSE
  /\ listedEarly = {}
  /\ insertedUnder = {}
  /\ validated = FALSE
  /\ errors = <<>>
  /\ conversations = <<>>
  /\ returned = NoCall
  /\ displayNodes = <<>>
  /\ panelNodes = <<>>
  /\ coreNodes = <<>>
  /\ ViewIdle

NextValidate == Validate

SpecValidate == InitValidate /\ [][NextValidate]_vars

\* The runs of addMessage alone, over every content and conversation.
NextAdd == AddAnyMessage

SpecAdd == Init /\ [][NextAdd]_vars

\* The runs that mix addMessage on any arguments, processEditVersions and
\* setConversationPath, at most MaxCalls calls.
NextCalls ==
  AddCheckedMessage \/ ProcessOneEditVersion \/ SetConversationPath

SpecCalls == Init /\ [][NextCalls]_vars

\* The runs of setConversationPath alone, over every argument.
NextPaths == SetAnyConversationPath

SpecPaths == Init /\ [][NextPaths]_vars

\* The panel marks its array.
PanelMarkTerminalNodes ==
  /\ panelNodes = <<>>
  /\ panelNodes' = panelMarkTerminalNodes(displayNodes)
  /\ UNCHANGED <<calls, nodes, nodeKeys, editGroups, groupKeys, validated,
                 errors, parentFirst, listedEarly, insertedUnder,
                 conversations, returned, displayNodes, coreNodes>>
  /\ UNCHANGED viewVars

\* The core tree builder marks the same array.
CoreMarkTerminalNodes ==
  /\ coreNodes = <<>>
  /\ coreNodes' = coreMarkTerminalNodes(displayNodes)
  /\ UNCHANGED <<calls, nodes, nodeKeys, editGroups, groupKeys, validated,
                 errors, parentFirst, listedEarly, insertedUnder,
                 conversations, returned, displayNodes, panelNodes>>
  /\ UNCHANGED viewVars

\* Any array of display nodes, not yet marked.
InitTerminal ==
  /\ calls = 0
  /\ nodes = <<>>
  /\ nodeKeys = <<>>
  /\ editGroups = <<>>
  /\ groupKeys = <<>>
  /\ parentFirst = TRUE
  /\ listedEarly = {}
  /\ insertedUnder = {}
  /\ validated = FALSE
  /\ errors = <<>>
  /\ conversations = <<>>
  /\ returned = NoCall
  /\ displayNodes \in NodeSequences
  /\ panelNodes = <<>>
  /\ coreNodes = <<>>
  /\ ViewIdle

NextTerminal == PanelMarkTerminalNodes \/ CoreMarkTerminalNodes

SpecTerminal == InitTerminal /\ [][NextTerminal]_vars

\* The panel annotates its array.
AnnotateContextContinuations ==
  /\ annotatedNodes = <<>>
  /\ annotatedNodes' = annotateContextContinuations(contextNodes)
  /\ UNCHANGED <<graphVars, displayVars, contextNodes, listVars, scriptVars,
               cacheVars>>

\* Any array of display nodes, not yet annotated.
InitContext ==
  /\ GraphIdle
  /\ DisplayIdle
  /\ contextNodes \in ContextSequences
  /\ annotatedNodes = <<>>
  /\ ListIdle
  /\ ScriptIdle
  /\ CacheIdle

NextContext == AnnotateContextContinuations

SpecContext == InitContext /\ [][NextContext]_vars

\* Any array of display nodes whose depth and colorIndex are any values,
\* not yet annotated.
InitContextValues ==
  /\ GraphIdle
  /\ DisplayIdle
  /\ contextNodes \in ContextValueSequences
  /\ annotatedNodes = <<>>
  /\ ListIdle
  /\ ScriptIdle
  /\ CacheIdle

SpecContextValues == InitContextValues /\ [][NextContext]_vars

\* The tree builder of core/storage.js builds the display list.
CoreBuildDisplayList ==
  /\ builtList.by = "none"
  /\ builtList' = [by |-> "core",
                   nodes |-> coreBuildDisplayList(buildArgs.messages,
                               CurrentConversationId, buildArgs.title,
                               buildArgs.branches)]
  /\ UNCHANGED <<graphVars, displayVars, contextVars, buildArgs, scriptVars,
               cacheVars>>

\* The content script builds the display list.
ContentBuildDisplayList ==
  /\ builtList.by = "none"
  /\ builtList' = [by |-> "content",
                   nodes |-> contentBuildDisplayList(buildArgs.messages,
                               buildArgs.branches, CurrentConversationId,
                               buildArgs.title)]
  /\ UNCHANGED <<graphVars, displayVars, contextVars, buildArgs, scriptVars,
               cacheVars>>

\* Any messages, title and branches, and no list built yet.
InitList ==
  /\ GraphIdle
  /\ DisplayIdle
  /\ ContextIdle
  /\ buildArgs \in BuildArgs
  /\ builtList = NotBuilt
  /\ ScriptIdle
  /\ CacheIdle

NextList == CoreBuildDisplayList \/ ContentBuildDisplayList

SpecList == InitList /\ [][NextList]_vars

\* ------------------------------------------------- the conversation cache

\* content.js MAX_CACHE_SIZE.
MAX_CACHE_SIZE == 50

\* The conversations of the account the user goes through: one more than
\* the Map may hold.
MaxConversations == 51

\* Map.prototype.set on the keys: a new key goes last, a key that is
\* already there keeps its place.
SetKey(keys, id) ==
  IF id \in Range(keys) THEN keys ELSE Append(keys, id)

\* Map.prototype.delete on the keys.
DeleteKey(keys, id) == SelectSeq(keys, LAMBDA k : k # id)

\* The eviction of setCachedConversation: when the Map is over the limit,
\* its first key is deleted, once.
EvictOldest(keys) ==
  IF Len(keys) > MAX_CACHE_SIZE THEN Tail(keys) ELSE keys

\* getCachedConversation(conversationId, isCurrent) to its await of the
\* storage, on a Map with these keys: an entry that is recent enough
\* (memFresh) is returned, one that is not is deleted. The result: the keys
\* of the Map afterwards, and whether data was returned.
LookUpInMap(keys, conversationId, memFresh) ==
  IF conversationId \in Range(keys) /\ memFresh
  THEN [keys |-> keys, hit |-> TRUE]
  ELSE [keys |-> DeleteKey(keys, conversationId), hit |-> FALSE]

\* getCachedConversation from the answer of the storage on (cached: the
\* storage had an entry when it was asked): no entry gives null, an entry
\* that is too old (not storedFresh) is removed from the storage and gives
\* null, any other entry is set in the Map and returned.
LookUpInStorage(keys, inStorage, conversationId, cached, storedFresh) ==
  IF ~cached
  THEN [keys |-> keys, inStorage |-> inStorage, hit |-> FALSE]
  ELSE IF ~storedFresh
  THEN [keys |-> keys, inStorage |-> inStorage \ {conversationId},
        hit |-> FALSE]
  ELSE [keys |-> SetKey(keys, conversationId), inStorage |-> inStorage,
        hit |-> TRUE]

\* setCachedConversation(conversationId, data) to its await of the storage:
\* the entry is set in the Map, the oldest key is evicted when the Map is
\* over the limit, and the entry is written to the storage.
setCachedConversation(keys, inStorage, conversationId) ==
  [keys |-> EvictOldest(SetKey(keys, conversationId)),
   inStorage |-> inStorage \cup {conversationId}]

\* ------------------------------------- the content script and the panel

otherThanScript == <<graphVars, displayVars, contextVars, listVars>>

\* The click listener of the content script: a click on "Branch in new
\* chat" on the page of one of these conversations stores pendingBranch,
\* with the conversation of the page as the parent.
ClickBranchOn(conversationIds) ==
  /\ clicks < MaxClicks
  /\ page.conv \in conversationIds
  /\ clicks' = clicks + 1
  /\ pendingBranch' = page.conv
  /\ UNCHANGED <<otherThanScript, stored, builds, isRefreshing, refreshTimer,
                 panelIsRefreshing, panelTimer, panelRequest, clearing,
                 returnedTree, saved, unserved, page, lastContentUrl,
                 memoryCache, cachedInStorage>>

\* The user opens another conversation in the tab, one of these pages; the
\* site changes the URL with pushState, and the content script stays.
UserNavigates(pages) ==
  /\ \E next \in pages :
       /\ next # page
       /\ page' = next
  /\ UNCHANGED <<otherThanScript, stored, pendingBranch, builds,
                 isRefreshing, refreshTimer, panelIsRefreshing, panelTimer,
                 panelRequest, clearing, returnedTree, saved, unserved,
                 clicks, lastContentUrl, memoryCache, cachedInStorage>>

\* scheduleRefresh(delay): the timer is set anew.
ScheduleRefreshCall ==
  /\ refreshTimer' = TRUE
  /\ unserved' = TRUE

\* checkUrlChange(), which setInterval calls every second, when the URL is
\* no longer the one it saw last: the conversation or its WEB: prefix has
\* changed, so scheduleRefresh(300) is called.
checkUrlChange ==
  /\ page # lastContentUrl
  /\ lastContentUrl' = page
  /\ IF page.conv # lastContentUrl.conv
        \/ page.preBranch # lastContentUrl.preBranch
     THEN ScheduleRefreshCall
     ELSE UNCHANGED <<refreshTimer, unserved>>
  /\ UNCHANGED <<otherThanScript, stored, pendingBranch, builds,
                 isRefreshing, panelIsRefreshing, panelTimer, panelRequest,
                 clearing, returnedTree, saved, clicks, page, memoryCache,
                 cachedInStorage>>

\* scheduleRefresh(delay) is called by the MutationObserver, on
\* visibilitychange, or on a message of the background script.
ScheduleRefresh ==
  /\ ScheduleRefreshCall
  /\ UNCHANGED <<otherThanScript, stored, pendingBranch, builds,
                 isRefreshing, panelIsRefreshing, panelTimer, panelRequest,
                 clearing, returnedTree, saved, clicks, page, lastContentUrl,
                 memoryCache, cachedInStorage>>

\* handleGetTree to its first await, of loadBranchData(): the conversation
\* id and the WEB: prefix of the page, and chrome.storage.local.get of the
\* branch data, which answers with what is stored now.
Started(origin) ==
  builds' = [builds EXCEPT ![origin] =
               [pc |-> "fetch", conv |-> page.conv,
                preBranch |-> page.preBranch, data |-> stored,
                pending |-> Null, useCache |-> TRUE,
                retryOnAuthError |-> TRUE, cached |-> FALSE]]

\* refreshTree() to the first await of handleGetTree: nothing when
\* isRefreshing.
RefreshTreeCall ==
  IF ~isRefreshing
  THEN /\ isRefreshing' = TRUE
       /\ Started("refresh")
       /\ unserved' = FALSE
  ELSE UNCHANGED <<isRefreshing, builds, unserved>>

\* The callback of refreshTimer: refreshTree() unless isRefreshing.
RefreshTimerFires ==
  /\ refreshTimer
  /\ refreshTimer' = FALSE
  /\ RefreshTreeCall
  /\ UNCHANGED <<otherThanScript, stored, pendingBranch, panelIsRefreshing,
                 panelTimer, panelRequest, clearing, returnedTree, saved,
                 clicks, page, lastContentUrl, memoryCache, cachedInStorage>>

\* The panel's refresh() to its first await: nothing when isRefreshing;
\* else isRefreshing is set and the background script is asked for the
\* active chat tab.
PanelRefreshCall ==
  IF ~panelIsRefreshing
  THEN /\ panelIsRefreshing' = TRUE
       /\ panelRequest' = "tab"
  ELSE UNCHANGED <<panelIsRefreshing, panelRequest>>

\* The Refresh button of the panel, which is disabled while isRefreshing,
\* is clicked: refresh() is called.
PanelRefresh ==
  /\ panelRequest = "none"
  /\ ~panelIsRefreshing
  /\ PanelRefreshCall
  /\ unserved' = TRUE
  /\ UNCHANGED <<otherThanScript, stored, pendingBranch, builds,
                 isRefreshing, refreshTimer, panelTimer, clearing,
                 returnedTree, saved, clicks, page, lastContentUrl,
                 memoryCache, cachedInStorage>>

\* The panel's debouncedRefresh(), on a change of tab or of visibility: the
\* timer is set anew.
PanelDebouncedRefresh ==
  /\ panelRequest # "closed"
  /\ panelTimer' = TRUE
  /\ unserved' = TRUE
  /\ UNCHANGED <<otherThanScript, stored, pendingBranch, builds,
                 isRefreshing, refreshTimer, panelIsRefreshing, panelRequest,
                 clearing, returnedTree, saved, clicks, page, lastContentUrl,
                 memoryCache, cachedInStorage>>

\* The callback of refreshDebounceTimer: refresh() unless isRefreshing.
PanelTimerFires ==
  /\ panelTimer
  /\ panelTimer' = FALSE
  /\ PanelRefreshCall
  /\ UNCHANGED <<otherThanScript, stored, pendingBranch, builds,
                 isRefreshing, refreshTimer, clearing, returnedTree, saved,
                 unserved, clicks, page, lastContentUrl, memoryCache,
                 cachedInStorage>>

\* What getActiveTab() resolves to: a chat tab, no tab, or a tab of another
\* site.
TabAnswers == {"chat", "none", "other"}

\* What is left of the click listeners of "Clear all branch data" when the
\* panel's window is gone: the CLEAR_CACHE messages on their way to the
\* content script and the calls of clearConversationCache() that await the
\* storage there, with no one to answer to.
Orphans(listeners) ==
  LET left == SelectSeq(listeners, LAMBDA l : l.pc \in {"cache", "keys"})
  IN [k \in 1..Len(left) |-> [left[k] EXCEPT !.orphan = TRUE]]

\* refresh() after getActiveTab(): with a chat tab GET_CONVERSATION_TREE is
\* sent to it; with no tab isRefreshing is cleared; on another site the
\* panel closes its window (isRefreshing stays as it is), which ends its
\* timer and its listeners.
TabAnsweredWith(answers) ==
  /\ panelRequest = "tab"
  /\ \E tab \in answers :
       \/ /\ tab = "chat"
          /\ panelRequest' = "sent"
          /\ UNCHANGED <<panelIsRefreshing, panelTimer, clearing>>
       \/ /\ tab = "none"
          /\ panelRequest' = "none"
          /\ panelIsRefreshing' = FALSE
          /\ UNCHANGED <<panelTimer, clearing>>
       \/ /\ tab = "other"
          /\ panelRequest' = "closed"
          /\ panelTimer' = FALSE
          /\ clearing' = Orphans(clearing)
          /\ UNCHANGED panelIsRefreshing
  /\ UNCHANGED <<otherThanScript, stored, pendingBranch, builds,
                 isRefreshing, refreshTimer, returnedTree, saved, unserved,
                 clicks, page, lastContentUrl, memoryCache, cachedInStorage>>

\* The panel is opened: its script starts with isRefreshing false and no
\* timer, and init() calls refresh().
PanelOpens ==
  /\ panelRequest = "closed"
  /\ panelIsRefreshing' = TRUE
  /\ panelRequest' = "tab"
  /\ panelTimer' = FALSE
  /\ UNCHANGED <<otherThanScript, stored, pendingBranch, builds,
                 isRefreshing, refreshTimer, clearing, returnedTree, saved,
                 unserved, clicks, page, lastContentUrl, memoryCache,
                 cachedInStorage>>

\* GET_CONVERSATION_TREE reaches the content script, and the listener calls
\* handleGetTree; or chrome.tabs.sendMessage fails, fetchTree returns
\* {error} and refresh() clears isRefreshing.
MessageDeliveredWith(deliveries) ==
  /\ panelRequest = "sent"
  /\ \E delivered \in deliveries :
       IF delivered
       THEN /\ Started("message")
            /\ panelRequest' = "running"
            /\ unserved' = FALSE
            /\ UNCHANGED panelIsRefreshing
       ELSE /\ panelRequest' = "none"
            /\ panelIsRefreshing' = FALSE
            /\ UNCHANGED <<builds, unserved>>
  /\ UNCHANGED <<otherThanScript, stored, pendingBranch, isRefreshing,
                 refreshTimer, panelTimer, clearing, returnedTree, saved,
                 clicks, page, lastContentUrl, memoryCache, cachedInStorage>>

\* refresh() on the response of the content script, a tree or {error}: it
\* is rendered, and isRefreshing is cleared.
PanelReceives ==
  /\ panelRequest = "response"
  /\ panelRequest' = "none"
  /\ panelIsRefreshing' = FALSE
  /\ UNCHANGED <<otherThanScript, stored, pendingBranch, builds,
                 isRefreshing, refreshTimer, panelTimer, clearing,
                 returnedTree, saved, unserved, clicks, page, lastContentUrl,
                 memoryCache, cachedInStorage>>

\* An execution returns: refreshTree's finally clears isRefreshing, the
\* listener of GET_CONVERSATION_TREE sends the panel its response, the
\* handler of SWITCH_CHATGPT_BRANCH and the listener of EXPORT_MARKDOWN
\* answer their sender.
Returned(origin) ==
  /\ builds' = [builds EXCEPT ![origin] = IdleBuild]
  /\ isRefreshing' = IF origin = "refresh" THEN FALSE ELSE isRefreshing
  /\ panelRequest' = IF origin = "message" THEN "response" ELSE panelRequest

\* How the two comparisons of getCachedConversation with the time to live
\* may come out: <<memFresh, storedFresh>>.
Freshness == BOOLEAN \X BOOLEAN

\* What a request of the network may come to: its answer, a 401, or any
\* other failure (of the token, of the request, of its JSON).
FetchAnswers == {"ok", "unauthorized", "failed"}

\* fetchChatGPTConversation has returned the conversation to its caller:
\* handleGetTree calls checkPendingBranch, which reads pendingBranch (the
\* storage answers with what is stored now); the handler of
\* SWITCH_CHATGPT_BRANCH sends its PATCH request; handleExportMarkdown
\* writes its file and returns.
FetchReturned(running, origin) ==
  IF origin \in BuildOrigins
  THEN [running EXCEPT ![origin].pc = "check",
                       ![origin].pending = pendingBranch]
  ELSE IF origin = "switch"
  THEN [running EXCEPT ![origin].pc = "patch"]
  ELSE [running EXCEPT ![origin] = IdleBuild]

\* fetchChatGPTConversation(conversationId, useCache, true,
\* retryOnAuthError) to its first await.  With useCache it calls
\* getCachedConversation, which looks into the Map: a recent entry is
\* returned; else an entry too old is deleted and chrome.storage.local.get
\* is called, which answers with what is stored now.  Without useCache it
\* goes on to the request.
AfterMapLookUp(running, origin, memFresh, retryOnAuthError) ==
  LET inMap == LookUpInMap(memoryCache, running[origin].conv, memFresh)
      called == [running EXCEPT ![origin].retryOnAuthError = retryOnAuthError]
  IN IF running[origin].useCache
     THEN /\ memoryCache' = inMap.keys
          /\ builds' = IF inMap.hit
                       THEN FetchReturned(called, origin)
                       ELSE [called EXCEPT
                               ![origin].pc = "cacheGet",
                               ![origin].cached =
                                 running[origin].conv \in cachedInStorage]
     ELSE /\ memoryCache' = memoryCache
          /\ builds' = [called EXCEPT ![origin].pc = "network"]

\* handleGetTree after loadBranchData(): fetchChatGPTConversation to its
\* first await, or on to checkPendingBranch with the entry of the Map.
CacheLookedUp(origin, freshness) ==
  /\ builds[origin].pc = "fetch"
  /\ \E fresh \in freshness : AfterMapLookUp(builds, origin, fresh[1], TRUE)
  /\ UNCHANGED <<otherThanScript, stored, pendingBranch, isRefreshing,
                 refreshTimer, panelIsRefreshing, panelTimer, panelRequest,
                 clearing, returnedTree, saved, unserved, clicks, page,
                 lastContentUrl, cachedInStorage>>

\* getCachedConversation after chrome.storage.local.get(key): the entry it
\* was answered is set in the Map and returned to the caller; or there was
\* none, or one too old, which is removed, and the conversation is
\* requested.
StorageLookedUp(origin, freshness) ==
  /\ builds[origin].pc = "cacheGet"
  /\ \E fresh \in freshness :
       LET got == LookUpInStorage(memoryCache, cachedInStorage,
                                  builds[origin].conv, builds[origin].cached,
                                  fresh[2])
       IN /\ memoryCache' = got.keys
          /\ cachedInStorage' = got.inStorage
          /\ builds' = IF got.hit
                       THEN FetchReturned(builds, origin)
                       ELSE [builds EXCEPT ![origin].pc = "network"]
  /\ UNCHANGED <<otherThanScript, stored, pendingBranch, isRefreshing,
                 refreshTimer, panelIsRefreshing, panelTimer, panelRequest,
                 clearing, returnedTree, saved, unserved, clicks, page,
                 lastContentUrl>>

\* fetchChatGPTConversation after the request: the conversation is cached
\* by setCachedConversation, which awaits the storage; after a first 401
\* fetchChatGPTConversation is called once more, and looks into the cache
\* again when it was called with useCache; any other failure is thrown,
\* and handleGetTree returns {error} (the handler of SWITCH_CHATGPT_BRANCH
\* and handleExportMarkdown answer with the error).
Fetched(origin, freshness, fetches) ==
  /\ builds[origin].pc = "network"
  /\ \E answer \in fetches, fresh \in freshness :
       LET set == setCachedConversation(memoryCache, cachedInStorage,
                                        builds[origin].conv)
       IN IF answer = "ok"
          THEN /\ memoryCache' = set.keys
               /\ cachedInStorage' = set.inStorage
               /\ builds' = [builds EXCEPT ![origin].pc = "cacheSet"]
               /\ UNCHANGED <<isRefreshing, panelRequest, returnedTree>>
          ELSE IF answer = "unauthorized" /\ builds[origin].retryOnAuthError
          THEN /\ AfterMapLookUp(builds, origin, fresh[1], FALSE)
               /\ UNCHANGED <<cachedInStorage, isRefreshing, panelRequest,
                              returnedTree>>
          ELSE /\ returnedTree' = IF origin \in BuildOrigins
                                  THEN [NoTree EXCEPT !.origin = origin,
                                                      !.error = TRUE]
                                  ELSE returnedTree
               /\ Returned(origin)
               /\ UNCHANGED <<memoryCache, cachedInStorage>>
  /\ UNCHANGED <<otherThanScript, stored, pendingBranch, refreshTimer,
                 panelIsRefreshing, panelTimer, clearing, saved, unserved,
                 clicks, page, lastContentUrl>>

\* setCachedConversation after chrome.storage.local.set: the conversation
\* is returned to the caller of fetchChatGPTConversation.
CacheWritten(origin) ==
  /\ builds[origin].pc = "cacheSet"
  /\ builds' = FetchReturned(builds, origin)
  /\ UNCHANGED <<otherThanScript, stored, pendingBranch, isRefreshing,
                 refreshTimer, panelIsRefreshing, panelTimer, panelRequest,
                 clearing, returnedTree, saved, unserved, clicks, page,
                 lastContentUrl, memoryCache, cachedInStorage>>

\* fetchChatGPTConversation goes on from an await.
FetchStepWith(origin, freshness, fetches) ==
  \/ StorageLookedUp(origin, freshness)
  \/ Fetched(origin, freshness, fetches)
  \/ CacheWritten(origin)

\* handleGetTree, "Update title in branch data": the title is set in the
\* execution's branch data, which saveBranchData writes to the storage.
TitleSaved(origin) ==
  SetTitle(builds[origin].data, builds[origin].conv,
           TitleOf(builds[origin].conv))

\* checkPendingBranch from the pendingBranch it read to its next await:
\* nothing pending or the parent itself (null is returned, and handleGetTree
\* saves its branch data), a pending branch that is too old (it is
\* removed), or the branch is recorded and saved.
CheckPending(origin) ==
  LET b == builds[origin]
      recorded == Recorded(b.data, b.pending, b.conv)
  IN
  /\ b.pc = "check"
  /\ \/ /\ b.pending = Null \/ b.pending = b.conv
        /\ stored' = TitleSaved(origin)
        /\ builds' = [builds EXCEPT ![origin].pc = "finish",
                                     ![origin].data = TitleSaved(origin)]
        /\ UNCHANGED <<pendingBranch, saved>>
     \/ /\ b.pending # Null
        /\ pendingBranch' = Null
        /\ builds' = [builds EXCEPT ![origin].pc = "removed"]
        /\ UNCHANGED <<stored, saved>>
     \/ /\ b.pending # Null
        /\ b.pending # b.conv
        /\ stored' = recorded
        /\ saved' = saved \cup {<<b.pending, b.conv>>}
        /\ builds' = [builds EXCEPT ![origin].pc = "recorded",
                                     ![origin].data = recorded]
        /\ UNCHANGED pendingBranch
  /\ UNCHANGED <<otherThanScript, isRefreshing, refreshTimer,
                 panelIsRefreshing, panelTimer, panelRequest, clearing,
                 returnedTree, unserved, clicks, page, lastContentUrl,
                 memoryCache, cachedInStorage>>

\* checkPendingBranch after saveBranchData: pendingBranch is removed.
RemovePending(origin) ==
  /\ builds[origin].pc = "recorded"
  /\ pendingBranch' = Null
  /\ builds' = [builds EXCEPT ![origin].pc = "removed"]
  /\ UNCHANGED <<otherThanScript, stored, isRefreshing, refreshTimer,
                 panelIsRefreshing, panelTimer, panelRequest, clearing,
                 returnedTree, saved, unserved, clicks, page, lastContentUrl,
                 memoryCache, cachedInStorage>>

\* handleGetTree after checkPendingBranch: the title is set and the branch
\* data saved.
FinalSave(origin) ==
  /\ builds[origin].pc = "removed"
  /\ stored' = TitleSaved(origin)
  /\ builds' = [builds EXCEPT ![origin].pc = "finish",
                               ![origin].data = TitleSaved(origin)]
  /\ UNCHANGED <<otherThanScript, pendingBranch, isRefreshing, refreshTimer,
                 panelIsRefreshing, panelTimer, panelRequest, clearing,
                 returnedTree, saved, unserved, clicks, page, lastContentUrl,
                 memoryCache, cachedInStorage>>

\* What handleGetTree returns of its branch data: the nodes and hasAncestry
\* of "Build display list" to the return, with the branch data they are
\* built of.
ReturnedTreeOf(origin, data, conversationId, isPreBranch) ==
  LET tree == TreeOf(data, conversationId, isPreBranch, ConversationMessages)
  IN [origin |-> origin, conversationId |-> tree.conversationId,
      nodes |-> tree.nodes, hasAncestry |-> tree.hasAncestry,
      preBranch |-> tree.preBranch, branchData |-> data, error |-> FALSE]

\* handleGetTree after saveBranchData, to its return.
Finish(origin) ==
  LET b == builds[origin] IN
  /\ b.pc = "finish"
  /\ returnedTree' = ReturnedTreeOf(origin, b.data, b.conv, b.preBranch)
  /\ Returned(origin)
  /\ UNCHANGED <<otherThanScript, stored, pendingBranch, refreshTimer,
                 panelIsRefreshing, panelTimer, clearing, saved, unserved,
                 clicks, page, lastContentUrl, memoryCache, cachedInStorage>>

\* An execution of handleGetTree goes on from an await.
BuildStepWith(origin, freshness, fetches) ==
  \/ CacheLookedUp(origin, freshness)
  \/ FetchStepWith(origin, freshness, fetches)
  \/ CheckPending(origin)
  \/ RemovePending(origin)
  \/ FinalSave(origin)
  \/ Finish(origin)

\* The click listeners of "Clear all branch data" that may run at once.
MaxClearing == 2

\* The listeners, with listener i come to pc.
ClearingAt(i, pc) == [clearing EXCEPT ![i].pc = pc]

\* The listeners without listener i, which has ended.
ClearingWithout(i) ==
  [k \in 1..(Len(clearing) - 1) |->
     IF k < i THEN clearing[k] ELSE clearing[k + 1]]

\* The panel's "Clear all branch data", confirmed: the branch data is
\* removed from the storage.  The button stays enabled, and every click
\* starts a listener of its own.
ClearData ==
  /\ panelRequest # "closed"
  /\ Len(clearing) < MaxClearing
  /\ stored' = EmptyBranchData
  /\ saved' = {}
  /\ clearing' = Append(clearing,
                        [pc |-> "data", keys |-> {}, orphan |-> FALSE])
  /\ UNCHANGED <<otherThanScript, pendingBranch, builds, isRefreshing,
                 refreshTimer, panelIsRefreshing, panelTimer, panelRequest,
                 returnedTree, unserved, clicks, page, lastContentUrl,
                 memoryCache, cachedInStorage>>

\* Then pendingBranch is removed.
ClearPending(i) ==
  /\ clearing[i].pc = "data"
  /\ pendingBranch' = Null
  /\ clearing' = ClearingAt(i, "pending")
  /\ UNCHANGED <<otherThanScript, stored, builds, isRefreshing, refreshTimer,
                 panelIsRefreshing, panelTimer, panelRequest, returnedTree,
                 saved, unserved, clicks, page, lastContentUrl, memoryCache,
                 cachedInStorage>>

\* Then the background script is asked for the active tab.
ClearAsksTab(i) ==
  /\ clearing[i].pc = "pending"
  /\ clearing' = ClearingAt(i, "tab")
  /\ UNCHANGED <<otherThanScript, stored, pendingBranch, builds,
                 isRefreshing, refreshTimer, panelIsRefreshing, panelTimer,
                 panelRequest, returnedTree, saved, unserved, clicks, page,
                 lastContentUrl, memoryCache, cachedInStorage>>

\* The listener after getActiveTab(): CLEAR_CACHE is sent to the tab, of
\* whatever site; with no tab the listener ends with refresh().
ClearTabAnswered(i) ==
  /\ clearing[i].pc = "tab"
  /\ \E tab \in TabAnswers :
       IF tab = "none"
       THEN /\ clearing' = ClearingWithout(i)
            /\ PanelRefreshCall
       ELSE /\ clearing' = ClearingAt(i, "cache")
            /\ UNCHANGED <<panelIsRefreshing, panelRequest>>
  /\ UNCHANGED <<otherThanScript, stored, pendingBranch, builds,
                 isRefreshing, refreshTimer, panelTimer, returnedTree, saved,
                 unserved, clicks, page, lastContentUrl, memoryCache,
                 cachedInStorage>>

\* CLEAR_CACHE reaches the content script: clearConversationCache() empties
\* the Map and asks the storage for all of its keys, which answers with
\* what is stored now.  Or there is no content script to reach, and the
\* listener, if its panel is still there, ends with refresh().
ClearCacheDelivered(i) ==
  /\ clearing[i].pc = "cache"
  /\ \E delivered \in BOOLEAN :
       IF delivered
       THEN /\ memoryCache' = <<>>
            /\ clearing' = [clearing EXCEPT ![i].pc = "keys",
                                            ![i].keys = cachedInStorage]
            /\ UNCHANGED <<panelIsRefreshing, panelRequest>>
       ELSE /\ clearing' = ClearingWithout(i)
            /\ IF clearing[i].orphan
               THEN UNCHANGED <<panelIsRefreshing, panelRequest>>
               ELSE PanelRefreshCall
            /\ UNCHANGED memoryCache
  /\ UNCHANGED <<otherThanScript, stored, pendingBranch, builds,
                 isRefreshing, refreshTimer, panelTimer, returnedTree, saved,
                 unserved, clicks, page, lastContentUrl, cachedInStorage>>

\* clearConversationCache() removes the cache entries it read from the
\* storage, and the content script answers; nothing is left of a listener
\* whose panel is gone.
ClearCacheKeys(i) ==
  /\ clearing[i].pc = "keys"
  /\ cachedInStorage' = cachedInStorage \ clearing[i].keys
  /\ clearing' = IF clearing[i].orphan THEN ClearingWithout(i)
                 ELSE ClearingAt(i, "answer")
  /\ UNCHANGED <<otherThanScript, stored, pendingBranch, builds,
                 isRefreshing, refreshTimer, panelIsRefreshing, panelTimer,
                 panelRequest, returnedTree, saved, unserved, clicks, page,
                 lastContentUrl, memoryCache>>

\* The answer to CLEAR_CACHE reaches the panel, and the click listener ends
\* with refresh().
ClearRefresh(i) ==
  /\ clearing[i].pc = "answer"
  /\ clearing' = ClearingWithout(i)
  /\ PanelRefreshCall
  /\ UNCHANGED <<otherThanScript, stored, pendingBranch, builds,
                 isRefreshing, refreshTimer, panelTimer, returnedTree, saved,
                 unserved, clicks, page, lastContentUrl, memoryCache,
                 cachedInStorage>>

\* A click listener of "Clear all branch data", or the content script for
\* it, goes on from an await.
ClearStep ==
  \E i \in 1..Len(clearing) :
    \/ ClearPending(i)
    \/ ClearAsksTab(i)
    \/ ClearTabAnswered(i)
    \/ ClearCacheDelivered(i)
    \/ ClearCacheKeys(i)
    \/ ClearRefresh(i)

\* The listeners after the content script is gone: a CLEAR_CACHE message
\* it was working on gets no answer, which ends the listener of a panel
\* that is gone and lets the other go on to refresh().
WithoutContentScript(listeners) ==
  LET left == SelectSeq(listeners,
                        LAMBDA l : ~(l.pc = "keys" /\ l.orphan))
  IN [k \in 1..Len(left) |->
        IF left[k].pc = "keys" THEN [left[k] EXCEPT !.pc = "answer"]
        ELSE left[k]]

\* The page is loaded again: the content script starts anew on the same
\* page, with an empty Map, nothing running, and init() calls
\* scheduleRefresh(100).  A panel whose GET_CONVERSATION_TREE was being
\* worked on gets an error for its response.  chrome.storage.local keeps
\* what it holds.
Reloaded ==
  /\ builds' = [o \in Callers |-> IdleBuild]
  /\ isRefreshing' = FALSE
  /\ memoryCache' = <<>>
  /\ lastContentUrl' = page
  /\ ScheduleRefreshCall
  /\ panelRequest' = IF panelRequest = "running" THEN "response"
                     ELSE panelRequest
  /\ returnedTree' = IF panelRequest = "running"
                     THEN [NoTree EXCEPT !.origin = "message",
                                         !.error = TRUE]
                     ELSE returnedTree
  /\ clearing' = WithoutContentScript(clearing)

\* The user loads the page again.
ReloadPage ==
  /\ Reloaded
  /\ UNCHANGED <<otherThanScript, stored, pendingBranch, panelIsRefreshing,
                 panelTimer, saved, clicks, page, cachedInStorage>>

\* SWITCH_CHATGPT_BRANCH reaches the content script, one request at a
\* time: the handler calls fetchChatGPTConversation for the conversation
\* of the page.
SwitchRequested(freshness) ==
  /\ builds["switch"].pc = "idle"
  /\ \E fresh \in freshness :
       AfterMapLookUp([builds EXCEPT !["switch"].conv = page.conv],
                      "switch", fresh[1], TRUE)
  /\ UNCHANGED <<otherThanScript, stored, pendingBranch, isRefreshing,
                 refreshTimer, panelIsRefreshing, panelTimer, panelRequest,
                 clearing, returnedTree, saved, unserved, clicks, page,
                 lastContentUrl, cachedInStorage>>

\* The handler after its PATCH request: when the answer is ok the
\* conversation is deleted from the Map and its entry removed from the
\* storage; else the handler answers with the error.
SwitchPatched(fetches) ==
  /\ builds["switch"].pc = "patch"
  /\ \E answer \in fetches :
       IF answer = "ok"
       THEN /\ memoryCache' = DeleteKey(memoryCache, builds["switch"].conv)
            /\ cachedInStorage' = cachedInStorage \ {builds["switch"].conv}
            /\ builds' = [builds EXCEPT !["switch"].pc = "reload"]
       ELSE /\ builds' = [builds EXCEPT !["switch"] = IdleBuild]
            /\ UNCHANGED <<memoryCache, cachedInStorage>>
  /\ UNCHANGED <<otherThanScript, stored, pendingBranch, isRefreshing,
                 refreshTimer, panelIsRefreshing, panelTimer, panelRequest,
                 clearing, returnedTree, saved, unserved, clicks, page,
                 lastContentUrl>>

\* The handler after chrome.storage.local.remove: location.reload().
SwitchReloads ==
  /\ builds["switch"].pc = "reload"
  /\ Reloaded
  /\ UNCHANGED <<otherThanScript, stored, pendingBranch, panelIsRefreshing,
                 panelTimer, saved, clicks, page, cachedInStorage>>

\* The handler of SWITCH_CHATGPT_BRANCH goes on from an await.
SwitchStepWith(freshness, fetches) ==
  \/ FetchStepWith("switch", freshness, fetches)
  \/ SwitchPatched(fetches)
  \/ SwitchReloads

\* EXPORT_MARKDOWN reaches the content script, one request at a time:
\* handleExportMarkdown calls fetchChatGPTConversation(conversationId,
\* false, true) for the conversation of the page, which reads no cache and
\* requests the conversation.
ExportRequested ==
  /\ builds["export"].pc = "idle"
  /\ AfterMapLookUp([builds EXCEPT !["export"].conv = page.conv,
                                   !["export"].useCache = FALSE],
                    "export", FALSE, TRUE)
  /\ UNCHANGED <<otherThanScript, stored, pendingBranch, isRefreshing,
                 refreshTimer, panelIsRefreshing, panelTimer, panelRequest,
                 clearing, returnedTree, saved, unserved, clicks, page,
                 lastContentUrl, cachedInStorage>>

\* handleExportMarkdown goes on from an await of fetchChatGPTConversation.
ExportStepWith(freshness, fetches) ==
  FetchStepWith("export", freshness, fetches)

\* The content script has just been loaded into the page of the
\* conversation p and init() has called scheduleRefresh(100); the panel is
\* not open; nothing is stored.
InitScript ==
  /\ GraphIdle
  /\ DisplayIdle
  /\ ContextIdle
  /\ ListIdle
  /\ ScriptLoadedOn(PageOf("p", FALSE))
  /\ CacheIdle

\* "Branch in new chat" is clicked on p, the tab goes on to the new
\* conversation c, and the tree is built by refreshTree and, once the panel
\* is open, for the panel.  The tab is there, every message and request is
\* answered, and what is cached is recent enough whenever it is read.
ClickBranchOnParent == ClickBranchOn({"p"})

UserOpensNewBranch == UserNavigates({PageOf("c", FALSE)})

ChatTabAnswered == TabAnsweredWith({"chat"})

MessageDelivered == MessageDeliveredWith({TRUE})

AnsweredBuildStepOf(origin) == BuildStepWith(origin, {<<TRUE, TRUE>>}, {"ok"})

AnsweredBuildStep == \E origin \in BuildOrigins : AnsweredBuildStepOf(origin)

NextRace ==
  \/ ClickBranchOnParent
  \/ UserOpensNewBranch
  \/ checkUrlChange
  \/ RefreshTimerFires
  \/ PanelOpens
  \/ PanelRefresh
  \/ ChatTabAnswered
  \/ MessageDelivered
  \/ PanelReceives
  \/ AnsweredBuildStep

SpecRace == InitScript /\ [][NextRace]_vars

\* Refreshes are asked for by the content script and by the panel, through
\* their timers and the Refresh button, while the tab goes from p to the
\* new conversation c.  A timer that is set fires, the URL is polled, the
\* tab is there, every message is delivered and answered, and an execution
\* of handleGetTree goes on to its return (the network and the storage
\* answer, and what is cached is recent enough whenever it is read);
\* nothing obliges anyone to ask for a refresh, to open the panel or
\* another conversation.
NextRefresh ==
  \/ ClickBranchOnParent
  \/ UserOpensNewBranch
  \/ checkUrlChange
  \/ ScheduleRefresh
  \/ RefreshTimerFires
  \/ PanelOpens
  \/ PanelDebouncedRefresh
  \/ PanelTimerFires
  \/ PanelRefresh
  \/ ChatTabAnswered
  \/ MessageDelivered
  \/ PanelReceives
  \/ AnsweredBuildStep

SpecRefresh ==
  /\ InitScript
  /\ [][NextRefresh]_vars
  /\ WF_vars(checkUrlChange)
  /\ WF_vars(RefreshTimerFires)
  /\ WF_vars(PanelTimerFires)
  /\ WF_vars(ChatTabAnswered)
  /\ WF_vars(MessageDelivered)
  /\ WF_vars(PanelReceives)
  /\ \A origin \in BuildOrigins : WF_vars(AnsweredBuildStepOf(origin))

\* The user goes through the conversations of the account in order, from
\* the first to the last and on to the first again, and stays on a page
\* until the content script has built its tree; "Branch in new chat" is
\* clicked on the first conversation only, and the page may be loaded again
\* and its conversation exported at any time.  Every request is answered,
\* and what is cached is recent enough whenever it is read.
ConversationIds == [i \in 1..MaxConversations |-> ToString(i)]

\* The conversation after this one, the first after the last.
NextConversation(id) ==
  LET i == CHOOSE k \in 1..MaxConversations : ConversationIds[k] = id
  IN ConversationIds[(i % MaxConversations) + 1]

\* The content script has nothing to do: no timer is set, no execution is
\* awaiting, and the URL is the one checkUrlChange saw last.
Settled ==
  /\ ~refreshTimer
  /\ \A origin \in Callers : builds[origin].pc = "idle"
  /\ page = lastContentUrl

UserOpensNext ==
  /\ Settled
  /\ UserNavigates({PageOf(NextConversation(page.conv), FALSE)})

ClickBranchOnFirst == ClickBranchOn({ConversationIds[1]})

RefreshBuildStep == BuildStepWith("refresh", {<<TRUE, TRUE>>}, {"ok"})

InitCache ==
  /\ GraphIdle
  /\ DisplayIdle
  /\ ContextIdle
  /\ ListIdle
  /\ ScriptLoadedOn(PageOf(ConversationIds[1], FALSE))
  /\ CacheIdle

ExportStep == ExportStepWith({<<TRUE, TRUE>>}, {"ok"})

NextCache ==
  \/ ClickBranchOnFirst
  \/ UserOpensNext
  \/ checkUrlChange
  \/ RefreshTimerFires
  \/ RefreshBuildStep
  \/ ExportRequested
  \/ ExportStep
  \/ ReloadPage

SpecCache == InitCache /\ [][NextCache]_vars

\* The panel is opened, closes on a tab of another site and is opened
\* again, and "Clear all branch data" is clicked, also before a listener
\* has ended, all on the page of p, whose tree is built by refreshTree and
\* for the panel.  The tab may be missing, a message may not reach the
\* content script; the requests for the conversation are answered.
TabAnswered == TabAnsweredWith(TabAnswers)

MessageDeliveredOrNot == MessageDeliveredWith(BOOLEAN)

NextPage ==
  \/ RefreshTimerFires
  \/ PanelOpens
  \/ TabAnswered
  \/ MessageDeliveredOrNot
  \/ PanelReceives
  \/ AnsweredBuildStep
  \/ ClearData
  \/ ClearStep

SpecPage == InitScript /\ [][NextPage]_vars

\* SWITCH_CHATGPT_BRANCH is sent to the content script of the page of p,
\* which is also loaded again by the user, while refreshTree builds its
\* tree.  The panel is not open.  The requests for the conversation are
\* answered or fail, and so is the PATCH request; what is cached may have
\* expired whenever it is read.
SwitchRequestedOfPage == SwitchRequested(Freshness)

SwitchStep == SwitchStepWith(Freshness, FetchAnswers)

FailingBuildStep == BuildStepWith("refresh", Freshness, FetchAnswers)

FailingExportStep == ExportStepWith(Freshness, FetchAnswers)

NextSwitch ==
  \/ RefreshTimerFires
  \/ FailingBuildStep
  \/ ReloadPage
  \/ SwitchRequestedOfPage
  \/ SwitchStep
  \/ ExportRequested
  \/ FailingExportStep

SpecSwitch == InitScript /\ [][NextSwitch]_vars

\* The node list of handleGetTree, of any branch data that recordings and
\* title updates leave, for the page of any conversation, with the WEB:
\* prefix or without.
TreeInputs ==
  {PageOf(id, isPreBranch) : id \in BranchIds, isPreBranch \in BOOLEAN}

\* refreshTree's execution of handleGetTree on this page has come to
\* "Update title in branch data" with this branch data, which is the one
\* stored: checkPendingBranch has returned.  The panel is not open.
BuildingNodes(data, shown) ==
  /\ stored = data
  /\ pendingBranch = Null
  /\ builds = [o \in Callers |->
                 IF o = "refresh"
                 THEN [IdleBuild EXCEPT !.pc = "removed", !.conv = shown.conv,
                                        !.preBranch = shown.preBranch,
                                        !.data = data]
                 ELSE IdleBuild]
  /\ isRefreshing = TRUE
  /\ refreshTimer = FALSE
  /\ panelIsRefreshing = FALSE
  /\ panelTimer = FALSE
  /\ panelRequest = "closed"
  /\ clearing = NotClearing
  /\ returnedTree = NoTree
  /\ saved = {}
  /\ unserved = FALSE
  /\ clicks = 0
  /\ page = shown
  /\ lastContentUrl = shown

InitNodes ==
  /\ GraphIdle
  /\ DisplayIdle
  /\ ContextIdle
  /\ ListIdle
  /\ \E data \in BranchDataAfter(MaxRecordings), shown \in TreeInputs :
       BuildingNodes(data, shown)
  /\ CacheIdle

\* handleGetTree sets the title and saves the branch data, and after the
\* await of saveBranchData builds the nodes and returns.
SaveTitle == FinalSave("refresh")

ReturnNodes == Finish("refresh")

NextNodes ==
  \/ SaveTitle
  \/ ReturnNodes

SpecNodes == InitNodes /\ [][NextNodes]_vars

\* ------------------------------------------------- notions the claims use

\* The position of a key in the insertion order of nodes.
Pos(G, id) == CHOOSE k \in 1..Len(G.nodeKeys) : G.nodeKeys[k] = id

\* The parent a node names, when it names one.
HasParent(G, id) == id \in DOMAIN G.nodes /\ G.nodes[id].parentId \notin {Null, ""}

\* The ids reached from the frontier by one or more parentId links.
RECURSIVE Ancestors(_, _, _)
Ancestors(G, frontier, seen) ==
  LET next == {G.nodes[x].parentId : x \in {y \in frontier : HasParent(G, y)}}
      new == next \ seen
  IN IF new = {} THEN seen ELSE Ancestors(G, new, seen \cup new)

\* id lies on a directed cycle of parentId links.
OnCycle(G, id) == id \in Ancestors(G, {id}, {})

\* Some parentId chain of the graph contains a cycle.
HasCycle(G) == \E id \in DOMAIN G.nodes : OnCycle(G, id)

ErrorsOfType(errs, t) == SelectSeq(errs, LAMBDA e : e.type = t)

CircularErrorsOf(G) == ErrorsOfType(validate(G), "circular_reference")

\* The graph is the three nodes of one cycle of length three.
IsThreeCycle(G) ==
  /\ Cardinality(DOMAIN G.nodes) = 3
  /\ \A x \in DOMAIN G.nodes :
       /\ HasParent(G, x)
       /\ G.nodes[x].parentId \in DOMAIN G.nodes
       /\ G.nodes[x].parentId # x
       /\ HasParent(G, G.nodes[x].parentId)
       /\ G.nodes[G.nodes[x].parentId].parentId \in DOMAIN G.nodes
       /\ G.nodes[G.nodes[G.nodes[x].parentId].parentId].parentId = x

\* The conversation ids addMessage was called with for an id.
InsertedConversations(id) == {p[2] : p \in {q \in insertedUnder : q[1] = id}}

\* Two nodes agree on every field but conversationIds.
SameButConversations(n1, n2) ==
  [n1 EXCEPT !.conversationIds = {}] = [n2 EXCEPT !.conversationIds = {}]

\* ------------------------------------------------------------------- claims

\* C1: after any sequence of addMessage calls the graph holds exactly one
\* node per distinct message id inserted, and the conversationIds of each node
\* is exactly the set of conversation ids its id was inserted under; a node
\* inserted under two conversations has conversationIds of size 2 and is
\* shared.
C1_OneNodePerIdWithItsConversations ==
  /\ DOMAIN nodes = {p[1] : p \in insertedUnder}
  /\ Range(nodeKeys) = DOMAIN nodes
  /\ Len(nodeKeys) = Cardinality(DOMAIN nodes)
  /\ \A id \in DOMAIN nodes :
       /\ nodes[id].id = id
       /\ nodes[id].conversationIds = InsertedConversations(id)
       /\ (Cardinality(InsertedConversations(id)) = 2 => isShared(nodes[id]))
       /\ (Cardinality(InsertedConversations(id)) = 1 => ~isShared(nodes[id]))

C1_Witness ==
  \E id \in DOMAIN nodes :
    /\ InsertedConversations(id) = ConvIds
    /\ Cardinality(nodes[id].conversationIds) = 2
    /\ isShared(nodes[id])

\* C2: addMessage for an id the graph already holds changes nothing but the
\* conversationIds of that node, which gains the conversation id: text, role,
\* createTime, parentId and every childIds stay as they were whatever the
\* incoming message carries; and a second addMessage(m, c) leaves the graph
\* the first one gave.
C2_ReinsertOnlyAddsConversation ==
  \A message \in Messages, conversationId \in ConvIds :
    LET once == addMessage(Graph, message, conversationId)
        twice == addMessage(once, message, conversationId)
    IN /\ twice = once
       /\ message.id \in DOMAIN nodes =>
            /\ DOMAIN once.nodes = DOMAIN nodes
            /\ once.nodeKeys = nodeKeys
            /\ once.editGroups = editGroups
            /\ once.groupKeys = groupKeys
            /\ \A id \in DOMAIN nodes :
                 /\ SameButConversations(once.nodes[id], nodes[id])
                 /\ once.nodes[id].conversationIds =
                      nodes[id].conversationIds
                        \cup (IF id = message.id THEN {conversationId} ELSE {})

\* A node inserted a second time, under another conversation, by a message
\* whose content differs from the one first written.
C2_Witness ==
  \E id \in DOMAIN nodes :
    /\ Cardinality(nodes[id].conversationIds) = 2
    /\ nodes[id].childIds # {}
    /\ \E message \in Messages :
         message.id = id /\ message.text # nodes[id].text

\* C3: a child added before the message its parentId names is never among
\* that parent's childIds, and a parent all of whose children were added
\* before it has no childIds at all: no addMessage call backfills the link.
C3_NoBackfillOfChildren ==
  \A p \in DOMAIN nodes :
    /\ \A c \in DOMAIN nodes :
         (nodes[c].parentId = p /\ Pos(Graph, c) < Pos(Graph, p))
           => c \notin nodes[p].childIds
    /\ (\A c \in DOMAIN nodes :
          nodes[c].parentId = p => Pos(Graph, c) < Pos(Graph, p))
         => nodes[p].childIds = {}

\* The parent was added after its child, and further calls followed.
C3_Witness ==
  \E p \in DOMAIN nodes, c \in DOMAIN nodes :
    /\ nodes[c].parentId = p
    /\ Pos(Graph, c) < Pos(Graph, p)
    /\ Pos(Graph, p) < Len(nodeKeys)
    /\ nodes[p].childIds = {}

\* C4 as claimed: in every state reachable through addMessage calls no
\* directed cycle exists among the parentId links.
C4_NoParentCycleEver == ~HasCycle(Graph)

\* C4 as amended: while every addMessage call has named no parent or a parent
\* the graph already held, no directed cycle exists among the parentId links.
C4_NoParentCycleWhenParentFirst == parentFirst => ~HasCycle(Graph)

\* A chain of three nodes built parent first.
C4_Witness ==
  /\ parentFirst
  /\ \E x \in DOMAIN nodes :
       /\ HasParent(Graph, x)
       /\ HasParent(Graph, nodes[x].parentId)
       /\ nodes[nodes[x].parentId].parentId \in DOMAIN nodes

\* C5 as claimed: for a graph that is one cycle of three nodes validate()
\* reports exactly one circular_reference error.
C5_ThreeCycleReportsOneError ==
  IsThreeCycle(Graph) => Len(CircularErrorsOf(Graph)) = 1

\* C5 as amended: for a graph that is one cycle of three nodes validate()
\* reports exactly three circular_reference errors, one naming each node of
\* the cycle.
C5_ThreeCycleReportsEachNode ==
  IsThreeCycle(Graph) =>
    /\ Len(CircularErrorsOf(Graph)) = 3
    /\ {e.messageId : e \in Range(CircularErrorsOf(Graph))} = DOMAIN nodes

C5_Witness == IsThreeCycle(Graph)

\* C6: validate() reports no circular_reference error for a graph whose
\* parentId chains are acyclic, and for a graph with a cycle it reports at
\* least one, each naming a node that lies on a cycle.
C6_CircularErrorsIffCycle ==
  /\ ~HasCycle(Graph) => Len(CircularErrorsOf(Graph)) = 0
  /\ HasCycle(Graph) =>
       /\ Len(CircularErrorsOf(Graph)) >= 1
       /\ \A e \in Range(CircularErrorsOf(Graph)) :
            e.messageId \in DOMAIN nodes /\ OnCycle(Graph, e.messageId)

\* A cycle entered from a node outside it, which validate() walks first.
C6_Witness ==
  /\ Len(nodeKeys) = 3
  /\ ~OnCycle(Graph, nodeKeys[1])
  /\ \E x \in Ancestors(Graph, {nodeKeys[1]}, {}) : OnCycle(Graph, x)
  /\ Len(CircularErrorsOf(Graph)) >= 1

\* The sets of two or more nodes that name the same parent.
SiblingSets(G) ==
  {S \in SUBSET DOMAIN G.nodes :
     /\ Cardinality(S) >= 2
     /\ \E x \in S : HasParent(G, x)
                     /\ \A y \in S : G.nodes[y].parentId = G.nodes[x].parentId}

\* The lexicographically smallest id of a set.
MinId(S) == CHOOSE m \in S : \A x \in S : Rank(m) <= Rank(x)

\* The ids of a set in ascending and in descending lexicographic order.
RECURSIVE Ascending(_)
Ascending(S) ==
  IF S = {} THEN <<>> ELSE <<MinId(S)>> \o Ascending(S \ {MinId(S)})

RECURSIVE Descending(_)
Descending(S) ==
  IF S = {} THEN <<>> ELSE Descending(S \ {MinId(S)}) \o <<MinId(S)>>

\* One message per member of S, each carrying the given siblingIds.
MessagesOf(S, siblingIds) ==
  [k \in 1..Cardinality(S) |->
     [id |-> Ascending(S)[k], siblingIds |-> siblingIds]]

\* The members of an edit group.
Members(G, groupId) == Range(G.editGroups[groupId])

\* C7 as claimed: after processEditVersions on two or more messages that
\* share a parent, whatever the platform hint and whether or not the messages
\* carry siblingIds, every member's editGroupId is the smallest sibling id and
\* getEditSiblings of a member holds the whole sibling set.
C7_GroupedByParent ==
  \A S \in SiblingSets(Graph), platform \in Platforms :
   \A siblingIds \in {<<>>, Descending(S)} :
    LET after == processEditVersions(Graph, MessagesOf(S, siblingIds), platform)
    IN \A x \in S :
         /\ after.nodes[x].editGroupId = MinId(S)
         /\ S \subseteq getEditSiblings(after, x)

\* C7 as amended: after processEditVersions with the chatgpt hint on two or
\* more messages that are nodes sharing a parent and each carry siblingIds
\* listing the whole sibling set, in any order, every member's editGroupId is
\* the smallest sibling id, it is an edit version with the other members as
\* editSiblingIds, and getEditSiblings of a member is the group's set, which
\* holds the whole sibling set: exactly it unless an earlier call listed
\* other ids under that group id.
C7_GroupedBySiblingIds ==
  \A S \in SiblingSets(Graph) :
   \A siblingIds \in {Ascending(S), Descending(S)} :
    LET after == processEditVersions(Graph, MessagesOf(S, siblingIds), "chatgpt")
        fresh == MinId(S) \in DOMAIN editGroups
                   => Members(Graph, MinId(S)) \subseteq S
    IN \A x \in S :
         /\ after.nodes[x].editGroupId = MinId(S)
         /\ after.nodes[x].isEditVersion
         /\ S \ {x} \subseteq after.nodes[x].editSiblingIds
         /\ x \in getEditSiblings(after, x)
         /\ S \subseteq getEditSiblings(after, x)
         /\ getEditSiblings(after, x) = Members(after, MinId(S))
         /\ fresh => getEditSiblings(after, x) = S

\* Two nodes sharing a parent that a processEditVersions call has grouped.
C7_Witness ==
  \E S \in SiblingSets(Graph) :
    \A x \in S :
      /\ nodes[x].editGroupId = MinId(S)
      /\ nodes[x].isEditVersion
      /\ getEditSiblings(Graph, x) = S

\* C8 as claimed: in every reachable state every id listed in an editGroups
\* set resolves to a node whose editGroupId is that group's key.
C8_ForwardConsistentEver ==
  \A g \in DOMAIN editGroups :
    \A x \in Members(Graph, g) :
      x \in DOMAIN nodes /\ nodes[x].editGroupId = g

\* The ids validate() reports as missing_edit_sibling or edit_group_mismatch.
ForwardErrorIds(G) ==
  {e.missingMessageId :
     e \in Range(ErrorsOfType(validate(G), "missing_edit_sibling"))}
  \cup {e.messageId :
     e \in Range(ErrorsOfType(validate(G), "edit_group_mismatch"))}

\* The ids listed under more than one group key.
ListedTwice(G) ==
  {x \in Ids : \E g1 \in DOMAIN G.editGroups, g2 \in DOMAIN G.editGroups :
                 g1 # g2 /\ x \in Members(G, g1) /\ x \in Members(G, g2)}

\* C8 as amended: an id listed in an editGroups set resolves to a node whose
\* editGroupId is that group's key provided the id had a node each time
\* processEditVersions listed it and it is listed under no other group key;
\* validate() reports missing_edit_sibling and edit_group_mismatch only for
\* the other listed ids.
C8_ForwardConsistentWhenListedOnceWithNode ==
  /\ \A g \in DOMAIN editGroups :
       \A x \in Members(Graph, g) \ (listedEarly \cup ListedTwice(Graph)) :
         x \in DOMAIN nodes /\ nodes[x].editGroupId = g
  /\ ForwardErrorIds(Graph) \subseteq listedEarly \cup ListedTwice(Graph)

\* A group with a member that is consistent and a member listed before it
\* had a node.
C8_Witness ==
  \E g \in DOMAIN editGroups :
    /\ \E x \in Members(Graph, g) \ (listedEarly \cup ListedTwice(Graph)) :
         nodes[x].editGroupId = g
    /\ \E y \in Members(Graph, g) : y \in listedEarly

\* C9: in every reachable state every node with a non-null editGroupId names
\* an existing editGroups entry that lists the node's own id, and validate()
\* reports no orphaned_edit_group.
C9_ReverseConsistent ==
  /\ \A id \in DOMAIN nodes :
       nodes[id].editGroupId # Null =>
         /\ nodes[id].editGroupId \in DOMAIN editGroups
         /\ id \in Members(Graph, nodes[id].editGroupId)
  /\ ErrorsOfType(validate(Graph), "orphaned_edit_group") = <<>>

\* A node marked with a group id other than its own.
C9_Witness ==
  \E id \in DOMAIN nodes :
    /\ nodes[id].editGroupId \notin {Null, id}
    /\ id \in Members(Graph, nodes[id].editGroupId)

\* The violation classes a graph shows, each stated on the graph itself.
ClassesPresent(G) ==
  {"orphaned_node" : id \in
     {x \in DOMAIN G.nodes :
        HasParent(G, x) /\ G.nodes[x].parentId \notin DOMAIN G.nodes}}
  \cup {"inconsistent_parent_child" : id \in
     {x \in DOMAIN G.nodes :
        /\ HasParent(G, x)
        /\ G.nodes[x].parentId \in DOMAIN G.nodes
        /\ x \notin G.nodes[G.nodes[x].parentId].childIds}}
  \cup {"circular_reference" : id \in {x \in DOMAIN G.nodes : OnCycle(G, x)}}
  \cup {"missing_edit_sibling" : g \in
     {h \in DOMAIN G.editGroups : Members(G, h) \ DOMAIN G.nodes # {}}}
  \cup {"edit_group_mismatch" : g \in
     {h \in DOMAIN G.editGroups :
        \E x \in Members(G, h) \cap DOMAIN G.nodes :
          G.nodes[x].editGroupId # h}}
  \cup {"orphaned_edit_group" : id \in
     {x \in DOMAIN G.nodes :
        /\ G.nodes[x].editGroupId \notin {Null, ""}
        /\ G.nodes[x].editGroupId \notin DOMAIN G.editGroups}}

AllClasses ==
  {"orphaned_node", "inconsistent_parent_child", "circular_reference",
   "missing_edit_sibling", "edit_group_mismatch", "orphaned_edit_group"}

\* C10: the error types in the result of one validate() call are exactly the
\* violation classes present in the graph, whichever other classes are
\* present with them.
C10_EveryClassPresentIsReported ==
  validated => {e.type : e \in Range(errors)} = ClassesPresent(Graph)

\* One call that reports all six classes.
C10_Witness ==
  /\ validated
  /\ {e.type : e \in Range(errors)} = AllClasses

\* A message that is an object with an id that is a non-empty string.
WellFormedMessage(message) ==
  /\ message.type = "object"
  /\ message.value = "[object Object]"
  /\ message.id.type = "string"
  /\ message.id.value # ""

WellFormedConversationId(conversationId) ==
  conversationId.type = "string" /\ conversationId.value # ""

\* C11: addMessage called with a malformed message (not an object, or an id
\* that is missing, empty or not a string) or with a conversationId that is
\* missing, empty or not a string returns null, does not throw, and leaves
\* nodes, conversations and editGroups as they were.
C11_MalformedReturnsNullUnchanged ==
  \A message \in MessageArgs, conversationId \in ConversationIdArgs :
    ~(WellFormedMessage(message) /\ WellFormedConversationId(conversationId))
      => LET call == addMessageCall(Graph, message, conversationId)
         IN /\ call.returned.value = Null
            /\ ~call.returned.threw
            /\ call.graph.nodes = nodes
            /\ call.graph.nodeKeys = nodeKeys
            /\ call.graph.conversations = conversations
            /\ call.graph.editGroups = editGroups
            /\ call.graph.groupKeys = groupKeys

\* A call that returned null on a graph that holds a stored conversation
\* and a node or an edit group.
C11_Witness ==
  /\ returned.value = Null
  /\ ~returned.threw
  /\ calls = MaxCalls
  /\ DOMAIN nodes # {} \/ DOMAIN editGroups # {}
  /\ DOMAIN conversations # {}

\* The ids getEditSiblings is asked about: every id of the calls, an id no
\* call names and the empty string.
AskedIds == Ids \cup {"z", ""}

\* C12: in every reachable graph state getEditSiblings(id) returns a
\* non-empty set that contains id, and returns exactly {id} when id has no
\* node or its node has no edit group.
C12_EditSiblingsHoldSelf ==
  \A id \in AskedIds :
    /\ getEditSiblings(Graph, id) # {}
    /\ id \in getEditSiblings(Graph, id)
    /\ (id \notin DOMAIN nodes \/ nodes[id].editGroupId = Null)
         => getEditSiblings(Graph, id) = {id}

\* A node whose group has a second member, next to an id that a group lists
\* and that has no node.
C12_Witness ==
  /\ \E id \in DOMAIN nodes :
       /\ nodes[id].editGroupId # Null
       /\ Cardinality(getEditSiblings(Graph, id)) >= 2
  /\ \E g \in DOMAIN editGroups :
       \E id \in Range(editGroups[g]) :
         /\ id \notin DOMAIN nodes
         /\ getEditSiblings(Graph, id) = {id}

\* The path stored for a conversation id: empty when nothing is stored or
\* what is stored holds no element.
StoredPath(G, conversationId) ==
  IF conversationId.value \in DOMAIN G.conversations
  THEN G.conversations[conversationId.value].path.items
  ELSE <<>>

\* The length of the longest common prefix of two sequences.
CommonPrefixLen(p, q) ==
  CHOOSE n \in 0..Len(p) :
    /\ n <= Len(q)
    /\ \A i \in 1..n : p[i] = q[i]
    /\ (n < Len(p) /\ n < Len(q)) => p[n + 1] # q[n + 1]

\* C13: findDivergencePoint(A, B) returns the id at the last index of the
\* longest common prefix of the two stored paths, and returns null when
\* either path is empty or the paths differ at index 0.
C13_DivergenceIsEndOfCommonPrefix ==
  \A A \in PathConvIdArgs, B \in PathConvIdArgs :
    LET p == StoredPath(Graph, A)
        q == StoredPath(Graph, B)
        n == CommonPrefixLen(p, q)
    IN /\ n > 0 => findDivergencePoint(Graph, A, B) = JsString(p[n])
       /\ (p = <<>> \/ q = <<>> \/ p[1] # q[1])
            => findDivergencePoint(Graph, A, B) = JsNull

\* The paths [a,b,c,d] and [a,b,e] stored, with b as their divergence
\* point.
C13_Witness ==
  /\ StoredPath(Graph, JsString("c1")) = <<"a", "b", "c", "d">>
  /\ StoredPath(Graph, JsString("c2")) = <<"a", "b", "e">>
  /\ findDivergencePoint(Graph, JsString("c1"), JsString("c2")) = JsString("b")

\* The values getUniquePathAfter is given as divergenceMessageId.
DivergenceIdArgs ==
  {JsString(x) : x \in {"a", "b", "c", "e", "z", "", "ab", "bc", "ba", "abc", "c1"}}
  \cup {JsNull, JsUndefined, JsNumber("7")}

\* The value is one of the elements of the path.
OccursIn(divergenceMessageId, p) ==
  divergenceMessageId.type = "string" /\ divergenceMessageId.value \in Range(p)

\* The first position (1-based) of an element of the path.
FirstPos(id, p) == CHOOSE k \in 1..Len(p) : p[k] = id /\ \A j \in 1..(k - 1) : p[j] # id

\* The part of a path after position k.
After(p, k) == SubSeq(p, k + 1, Len(p))

\* C14 as claimed: getUniquePathAfter(divergenceId, c) returns the part of
\* c's stored path strictly after the position of divergenceId, and the
\* entire path for every divergenceId that does not occur in the path.
C14_SuffixOrWholePathForAnyId ==
  \A divergenceId \in DivergenceIdArgs, c \in PathConvIdArgs :
    LET p == StoredPath(Graph, c)
        result == getUniquePathAfter(Graph, divergenceId, c).items
    IN IF OccursIn(divergenceId, p)
       THEN result = After(p, FirstPos(divergenceId.value, p))
       ELSE result = p

\* Whether what is stored as the path of a conversation is a string.
StoredIsString(G, conversationId) ==
  /\ conversationId.value \in DOMAIN G.conversations
  /\ G.conversations[conversationId.value].path.type = "string"

\* The positions (1-based) at which a run of elements stands in a sequence.
RunPositions(p, run) ==
  {k \in 1..Len(p) :
     /\ k + Len(run) - 1 <= Len(p)
     /\ SubSeq(p, k, k + Len(run) - 1) = run}

\* C14 as amended: for a divergenceId that is a non-empty string,
\* getUniquePathAfter(divergenceId, c) returns the part of c's stored path
\* strictly after the first position of divergenceId, and the entire path
\* when divergenceId does not occur in it, where in a path stored as a
\* string divergenceId occurs wherever its characters stand in a row and
\* the part returned begins one character after the first such place; for
\* a divergenceId that is null, undefined, the empty string or no string it
\* returns the empty sequence, whatever the path holds.
C14_SuffixOrWholePathForNonEmptyString ==
  \A divergenceId \in DivergenceIdArgs, c \in PathConvIdArgs :
    LET p == StoredPath(Graph, c)
        returnedPath == getUniquePathAfter(Graph, divergenceId, c)
        result == returnedPath.items
    IN IF divergenceId.type = "string" /\ divergenceId.value # ""
       THEN LET run == IF StoredIsString(Graph, c)
                       THEN Chars(divergenceId.value)
                       ELSE <<divergenceId.value>>
                found == RunPositions(p, run)
            IN IF found # {}
               THEN result = After(p, CHOOSE k \in found : \A j \in found : k <= j)
               ELSE /\ result = p
                    /\ p # <<>> => returnedPath = Graph.conversations[c.value].path
       ELSE result = <<>>

\* A path stored as a string, and an id of two characters found in it.
C14_StringPathWitness ==
  /\ StoredIsString(Graph, JsString("c1"))
  /\ StoredPath(Graph, JsString("c1")) = <<"a", "b", "c">>
  /\ getUniquePathAfter(Graph, JsString("bc"), JsString("c1")).items = <<"c">>

\* The path [a,b,c,d] stored: after b it is [c,d], after an id it does not
\* hold it is the whole path, and after null it is empty.
C14_Witness ==
  /\ StoredPath(Graph, JsString("c1")) = <<"a", "b", "c", "d">>
  /\ getUniquePathAfter(Graph, JsString("b"), JsString("c1")).items = <<"c", "d">>
  /\ getUniquePathAfter(Graph, JsString("z"), JsString("c1")).items
       = <<"a", "b", "c", "d">>
  /\ getUniquePathAfter(Graph, JsNull, JsString("c1")).items = <<>>

\* No element occurs twice in the sequence and none is the empty string.
DistinctIds(p) ==
  /\ \A i \in 1..Len(p), j \in 1..Len(p) : p[i] = p[j] => i = j
  /\ "" \notin Range(p)

\* getUniquePathAfter(findDivergencePoint(A, B), A)
UniqueAfterDivergence(G, A, B) ==
  getUniquePathAfter(G, findDivergencePoint(G, A, B), A).items

\* C15 as claimed: for any two conversations whose stored paths share a
\* non-empty common prefix, getUniquePathAfter(findDivergencePoint(A, B), A)
\* is A's path with the common prefix removed and holds no message of the
\* shared prefix.
C15_UniquePathDropsPrefixForAnyPaths ==
  \A A \in PathConvIdArgs, B \in PathConvIdArgs :
    LET p == StoredPath(Graph, A)
        n == CommonPrefixLen(p, StoredPath(Graph, B))
    IN n > 0 =>
         /\ UniqueAfterDivergence(Graph, A, B) = After(p, n)
         /\ Range(UniqueAfterDivergence(Graph, A, B))
              \cap Range(SubSeq(p, 1, n)) = {}

\* C15 as amended: for any two conversations whose stored paths share a
\* non-empty common prefix, where A's path holds no id twice and no empty
\* id, getUniquePathAfter(findDivergencePoint(A, B), A) is A's path with the
\* common prefix removed and holds no message of the shared prefix.
C15_UniquePathDropsPrefixForDistinctIds ==
  \A A \in PathConvIdArgs, B \in PathConvIdArgs :
    LET p == StoredPath(Graph, A)
        n == CommonPrefixLen(p, StoredPath(Graph, B))
    IN (n > 0 /\ DistinctIds(p)) =>
         /\ UniqueAfterDivergence(Graph, A, B) = After(p, n)
         /\ Range(UniqueAfterDivergence(Graph, A, B))
              \cap Range(SubSeq(p, 1, n)) = {}

\* A = [a,b,c,d] and B = [a,b,e]: b, and then [c,d].
C15_Witness ==
  /\ StoredPath(Graph, JsString("c1")) = <<"a", "b", "c", "d">>
  /\ StoredPath(Graph, JsString("c2")) = <<"a", "b", "e">>
  /\ UniqueAfterDivergence(Graph, JsString("c1"), JsString("c2")) = <<"c", "d">>
  /\ UniqueAfterDivergence(Graph, JsString("c2"), JsString("c1")) = <<"e">>

\* The conversation ids that are non-empty strings, stored or not.
StringConvIds == {JsString("c1"), JsString("c2"), JsString("c3")}

\* C16: getConversationPath(c) always returns a sequence, never null or
\* undefined: the empty sequence for a conversation that was never stored,
\* otherwise the path passed to the latest successful
\* setConversationPath(c, path, metadata), for any metadata object; a call
\* that does not store leaves what getConversationPath returns as it was.
C16_GetReturnsLatestPathSet ==
  /\ \A c \in PathConvIdArgs :
       /\ getConversationPath(Graph, c).type = "array"
       /\ c.value \notin DOMAIN conversations
            => getConversationPath(Graph, c) = ArrayOf(<<>>)
  /\ \A c \in StringConvIds, path \in PathArgs, metadata \in MetadataArgs :
       LET after == setConversationPath(Graph, c, path, metadata)
       IN IF path.type = "array"
          THEN getConversationPath(after, c) = path
          ELSE getConversationPath(after, c) = getConversationPath(Graph, c)

\* What the code provides: the path passed is returned when the metadata has
\* no path property of its own; otherwise that property is returned, or the
\* empty sequence when it is null; the result is never null or undefined.
PathLookupFollowsMetadataPath ==
  /\ \A c \in PathConvIdArgs :
       /\ getConversationPath(Graph, c).type \in {"array", "string"}
       /\ c.value \notin DOMAIN conversations
            => getConversationPath(Graph, c) = ArrayOf(<<>>)
  /\ \A c \in StringConvIds, path \in PathArgs, metadata \in MetadataArgs :
       LET after == setConversationPath(Graph, c, path, metadata)
       IN IF path.type # "array"
          THEN after = Graph
          ELSE IF ~metadata.hasPath
          THEN getConversationPath(after, c) = path
          ELSE getConversationPath(after, c) =
                 (IF metadata.path.type = "null" THEN ArrayOf(<<>>)
                  ELSE metadata.path)

\* The positions of an array after position k.
Later(ns, k) == (k + 1)..Len(ns)

\* Two display nodes are of the same context: the same colorIndex, undefined
\* matching only undefined.
SameContext(n1, n2) == n1.colorIndex = n2.colorIndex

\* The positions whose node is neither a branch nor an edit branch and is
\* followed at once by a branch.
BeforeBranch(ns) ==
  {k \in 1..(Len(ns) - 1) :
     ns[k].type \notin {"branch", "editBranch"} /\ ns[k + 1].type = "branch"}

\* C17 as claimed: for a node, not a branch or editBranch, whose immediate
\* successor is a branch, the panel's markTerminalNodes marks it terminal iff
\* no node of the same context exists anywhere later in the sequence.
C17_TerminalIffNoSameContextNodeLater ==
  \A k \in BeforeBranch(panelNodes) :
    panelNodes[k].isTerminal
      <=> ~ \E j \in Later(panelNodes, k) :
              SameContext(panelNodes[j], panelNodes[k])

\* C17 as amended: for a node, not a branch or editBranch, whose immediate
\* successor is a branch, the panel's markTerminalNodes marks it terminal iff
\* no node that is not a branch and has the same context exists anywhere
\* later in the sequence; branch nodes, of any context, and nodes of another
\* context in between do not stop the scan.
C17_TerminalIffNoSameContextNonBranchLater ==
  \A k \in BeforeBranch(panelNodes) :
    panelNodes[k].isTerminal
      <=> ~ \E j \in Later(panelNodes, k) :
              /\ panelNodes[j].type # "branch"
              /\ SameContext(panelNodes[j], panelNodes[k])

\* A main-line message, a branch, a message of another context and then a
\* main-line message: the first is not terminal.
C17_Witness ==
  /\ Len(panelNodes) = 4
  /\ 1 \in BeforeBranch(panelNodes)
  /\ panelNodes[3].type = "message"
  /\ ~SameContext(panelNodes[3], panelNodes[1])
  /\ panelNodes[4].type = "message"
  /\ SameContext(panelNodes[4], panelNodes[1])
  /\ ~panelNodes[1].isTerminal

\* A node of the main line: not a branch marker and without colorIndex.
MainLineNode(n) == n.type # "branch" /\ n.colorIndex = Undefined

CollapsedBranch(n) == n.type = "branch" /\ ~n.expanded

\* In a marked array every collapsed branch is terminal iff no main-line
\* node follows it.
CollapsedBranchTerminalIffNoMainLineLater(ns) ==
  \A k \in 1..Len(ns) :
    CollapsedBranch(ns[k]) =>
      (ns[k].isTerminal <=> ~ \E j \in Later(ns, k) : MainLineNode(ns[j]))

\* C18: the panel's markTerminalNodes and the one the core tree builder
\* exports both mark a collapsed branch terminal iff no main-line node
\* follows it later in the sequence: the branch of [msg1, branch, msg2] is
\* not terminal, the branch of [msg1, branch] is.
C18_CollapsedBranchTerminalIffNoMainLineLater ==
  /\ CollapsedBranchTerminalIffNoMainLineLater(panelNodes)
  /\ CollapsedBranchTerminalIffNoMainLineLater(coreNodes)

\* What holds of the panel alone.
PanelCollapsedBranchTerminalIffNoMainLineLater ==
  CollapsedBranchTerminalIffNoMainLineLater(panelNodes)

\* What the core tree builder does: a collapsed branch is always terminal.
CoreCollapsedBranchAlwaysTerminal ==
  \A k \in 1..Len(coreNodes) :
    CollapsedBranch(coreNodes[k]) => coreNodes[k].isTerminal

\* [msg1, branch(collapsed), msg2] marked by both: not terminal in the
\* panel, terminal in the core tree builder.
BranchBetweenMessagesMarkedBoth ==
  /\ Len(panelNodes) = 3 /\ Len(coreNodes) = 3
  /\ \A k \in {1, 3} : displayNodes[k].type = "message"
                         /\ displayNodes[k].colorIndex = Undefined
  /\ CollapsedBranch(displayNodes[2])
  /\ ~panelNodes[2].isTerminal
  /\ coreNodes[2].isTerminal

\* C19 as claimed: the panel's markTerminalNodes marks the last node of the
\* sequence terminal, whatever its type.
C19_LastNodeTerminalWhateverType ==
  Len(panelNodes) > 0 => panelNodes[Len(panelNodes)].isTerminal

\* C19 as amended: the panel's markTerminalNodes marks the last node of the
\* sequence terminal unless it is an expanded branch, which it marks not
\* terminal.
C19_LastNodeTerminalUnlessExpandedBranch ==
  Len(panelNodes) > 0 =>
    LET last == panelNodes[Len(panelNodes)]
    IN last.isTerminal <=> ~(last.type = "branch" /\ last.expanded)

\* A collapsed branch at the end of an array, after a message of the main
\* line, marked terminal.
C19_Witness ==
  /\ Len(panelNodes) = 2
  /\ MainLineNode(panelNodes[1])
  /\ CollapsedBranch(panelNodes[2])
  /\ panelNodes[2].isTerminal

ExpandedBranchNeverTerminal(ns) ==
  \A k \in 1..Len(ns) :
    (ns[k].type = "branch" /\ ns[k].expanded) => ~ns[k].isTerminal

\* C20: neither the panel's markTerminalNodes nor the one the core tree
\* builder exports marks an expanded branch terminal, at any position of the
\* sequence.
C20_ExpandedBranchNeverTerminal ==
  /\ ExpandedBranchNeverTerminal(panelNodes)
  /\ ExpandedBranchNeverTerminal(coreNodes)

\* What holds of the panel alone.
PanelExpandedBranchNeverTerminal == ExpandedBranchNeverTerminal(panelNodes)

\* What the core tree builder does: an expanded branch is terminal exactly
\* at the last position.
CoreExpandedBranchTerminalIffLast ==
  \A k \in 1..Len(coreNodes) :
    (coreNodes[k].type = "branch" /\ coreNodes[k].expanded) =>
      (coreNodes[k].isTerminal <=> k = Len(coreNodes))

\* The (depth, colorIndex) key of a display node, a node without depth
\* being at depth 0.
ContextKey(n) == <<DepthOrZero(n), n.colorIndex>>

\* The positions before and after position k whose node is no branch and
\* has the key of the node at k.
SameKeyPositions(ns, k, positions) ==
  {j \in positions : ns[j].type # "branch" /\ ContextKey(ns[j]) = ContextKey(ns[k])}

\* C21: after annotateContextContinuations every non-branch node has
\* hasPrevContext true iff some earlier non-branch node has the same
\* (depth, colorIndex) key, and hasNextContext true iff some later non-branch
\* node has the same key.
C21_ContextFlagsMatchEarlierAndLater ==
  \A k \in 1..Len(annotatedNodes) :
    annotatedNodes[k].type # "branch" =>
      /\ annotatedNodes[k].hasPrevContext
           <=> SameKeyPositions(annotatedNodes, k, 1..(k - 1)) # {}
      /\ annotatedNodes[k].hasNextContext
           <=> SameKeyPositions(annotatedNodes, k, Later(annotatedNodes, k)) # {}

\* A message, a branch, a message of another key and a message of the
\* first key: the first has a next and no previous, the last a previous
\* and no next, the third neither.
C21_Witness ==
  /\ Len(annotatedNodes) = 4
  /\ annotatedNodes[2].type = "branch"
  /\ \A k \in {1, 3, 4} : annotatedNodes[k].type # "branch"
  /\ ContextKey(annotatedNodes[1]) = ContextKey(annotatedNodes[4])
  /\ ContextKey(annotatedNodes[3]) # ContextKey(annotatedNodes[1])
  /\ annotatedNodes[1].hasNextContext /\ ~annotatedNodes[1].hasPrevContext
  /\ annotatedNodes[4].hasPrevContext /\ ~annotatedNodes[4].hasNextContext
  /\ ~annotatedNodes[3].hasPrevContext /\ ~annotatedNodes[3].hasNextContext

\* The hasNextContext values a single backward pass gives the nodes at the
\* positions 1..i, with the keys of the tracked nodes after position i in a
\* running set; a branch node is skipped (FALSE stands at its position).
RECURSIVE BackwardSeenPass(_, _, _)
BackwardSeenPass(ns, i, seen) ==
  IF i = 0 THEN <<>>
  ELSE IF ~shouldTrack(ns[i])
  THEN Append(BackwardSeenPass(ns, i - 1, seen), FALSE)
  ELSE Append(BackwardSeenPass(ns, i - 1, seen \cup {makeKey(ns[i])}),
              makeKey(ns[i]) \in seen)

\* The backward pass and annotateContextContinuations give some tracked
\* node of the array different hasNextContext values.
BackwardPassDiffers(ns) ==
  \E k \in 1..Len(ns) :
    /\ shouldTrack(ns[k])
    /\ BackwardSeenPass(ns, Len(ns), {})[k]
         # annotateContextContinuations(ns)[k].hasNextContext

\* The tracked nodes behind position k whose key, as makeKey builds it, is
\* that of the node at k.
LaterOfKey(ns, k) ==
  {j \in (k + 1)..Len(ns) :
     shouldTrack(ns[j]) /\ makeKey(ns[j]) = makeKey(ns[k])}

\* The tracked nodes behind position k whose depth (0 when it has none) and
\* colorIndex are, by ===, those of the node at k.
LaterOfValues(ns, k) ==
  {j \in (k + 1)..Len(ns) :
     /\ shouldTrack(ns[j])
     /\ StrictEquals(DepthOrZero(ns[j]), DepthOrZero(ns[k]))
     /\ \/ StrictEquals(ns[j].colorIndex, ns[k].colorIndex)
        \/ ns[j].colorIndex = Undefined /\ ns[k].colorIndex = Undefined}

\* A message whose colorIndex is null before a message that has none: one
\* key, 0|main, and two values.
NullBeforeUndefined ==
  << [type |-> "message", depth |-> Undefined, colorIndex |-> Null],
     [type |-> "message", depth |-> Undefined, colorIndex |-> Undefined] >>

EntryPositions(rest, entry) ==
  {p \in 1..Len(rest) : /\ rest[p].id = entry.id
                        /\ rest[p].type = entry.type
                        /\ rest[p].depth = entry.depth}

EntryIndex(entries, id) == CHOOSE e \in 1..Len(entries) : entries[e].id = id

InTimeOrder(rest, entries) ==
  \A p, q \in 1..Len(rest) :
    p < q =>
      /\ ~Greater(toSeconds(rest[p].createTime), toSeconds(rest[q].createTime))
      /\ toSeconds(rest[p].createTime) = toSeconds(rest[q].createTime)
           => EntryIndex(entries, rest[p].id) < EntryIndex(entries, rest[q].id)

ListsEntries(rest, entries) ==
  /\ Len(rest) = Len(entries)
  /\ \A e \in 1..Len(entries) : Cardinality(EntryPositions(rest, entries[e])) = 1
  /\ InTimeOrder(rest, entries)

\* The title node is first when a title is given, and there is no other.
TitleFirst(list, title) ==
  /\ title # "" => /\ Len(list) >= 1
                   /\ list[1].type = "title"
                   /\ list[1].text = title
  /\ \A p \in 1..Len(list) : list[p].type = "title" => p = 1 /\ title # ""

BehindTitle(list, title) == IF title # "" THEN Tail(list) ELSE list

EntryOfMessage(msg) == [id |-> msg.id, type |-> "message", depth |-> "0"]

EntryOfEditBranch(msg) == [id |-> msg.id, type |-> "editBranch", depth |-> "1"]

EntryOfBranch(branch) ==
  [id |-> "branch:" \o branch.childId, type |-> "branch", depth |-> "1"]

EntriesOf(items, Entry(_)) == [i \in 1..Len(items) |-> Entry(items[i])]

\* One message node per user-role message, one branch node per branch.
ClaimedEntries(args) ==
  EntriesOf(SelectSeq(args.messages, IsUser), EntryOfMessage)
    \o EntriesOf(args.branches, EntryOfBranch)

\* One message node per user-role message that is no editBranch item, one
\* branch node per branch, one editBranch node per editBranch item.
ContentEntries(args) ==
  EntriesOf(SelectSeq(args.messages, IsRegularUser), EntryOfMessage)
    \o EntriesOf(args.branches, EntryOfBranch)
    \o EntriesOf(SelectSeq(args.messages, IsEditBranch), EntryOfEditBranch)

\* C23 as claimed: each buildDisplayList returns the title node at index 0
\* when a title is given, then one depth-0 message node per user-role input
\* message and one depth-1 branch node per recorded branch and nothing of
\* another role, in non-decreasing createTime order, ties in their original
\* relative order.
C23_DisplayListOfUserMessagesAndBranches ==
  builtList.by # "none" =>
    /\ TitleFirst(builtList.nodes, buildArgs.title)
    /\ ListsEntries(BehindTitle(builtList.nodes, buildArgs.title),
                    ClaimedEntries(buildArgs))

\* C23 as amended: the buildDisplayList of core/storage.js returns the
\* title node at index 0 when a title is given, then one depth-0 message
\* node per user-role input message and one depth-1 branch node per recorded
\* branch, in non-decreasing createTime order, ties in their original
\* relative order; the buildDisplayList of content.js does so for the input
\* messages that are no editBranch items, and lists every editBranch item,
\* whatever its role, as a depth-1 editBranch node in the same order (at a
\* tie behind the messages and the branches).
C23_DisplayListOfUserMessagesBranchesAndEditBranches ==
  /\ builtList.by # "none" => TitleFirst(builtList.nodes, buildArgs.title)
  /\ builtList.by = "core" =>
       ListsEntries(BehindTitle(builtList.nodes, buildArgs.title),
                    ClaimedEntries(buildArgs))
  /\ builtList.by = "content" =>
       ListsEntries(BehindTitle(builtList.nodes, buildArgs.title),
                    ContentEntries(buildArgs))

\* The content script's list with a title, a user message, a branch of the
\* time of that message behind it, and an editBranch item of the assistant.
C23_Witness ==
  /\ builtList.by = "content"
  /\ Len(builtList.nodes) >= 4
  /\ builtList.nodes[1].type = "title"
  /\ \E p, q, r \in 2..Len(builtList.nodes) :
       /\ p < q
       /\ builtList.nodes[p].type = "message"
       /\ builtList.nodes[q].type = "branch"
       /\ toSeconds(builtList.nodes[p].createTime)
            = toSeconds(builtList.nodes[q].createTime)
       /\ builtList.nodes[r].type = "editBranch"
       /\ builtList.nodes[r].role = "assistant"

\* The nodes are, in this order: the ancestor-title node with the parent's
\* title, the branchRoot node, a branch node per branch of the parent, the
\* current-title node, and the nodes of the conversation itself (a message
\* node per user message, a branch node per branch of its own).
AncestryOrder(ns, data, conversationId) ==
  LET parentId == findParentBranch(data, conversationId).parentId
      siblings == BranchesUnder(data, parentId)
      k == Len(siblings)
      own == Len(SelectSeq(ConversationMessages, IsRegularUser))
               + Len(BranchesUnder(data, conversationId))
  IN  /\ Len(ns) = k + 3 + own
      /\ ns[1].type = "ancestor-title"
      /\ ns[1].text = ParentTitle(data, parentId)
      /\ ns[2].type = "branchRoot"
      /\ ns[2].targetConversationId = parentId
      /\ \A i \in 1..k :
           /\ ns[2 + i].type = "branch"
           /\ ns[2 + i].targetConversationId = siblings[i].childId
      /\ ns[k + 3].type = "current-title"
      /\ ns[k + 3].targetConversationId = conversationId
      /\ \A j \in (k + 4)..Len(ns) :
           /\ ns[j].type \in {"message", "branch"}
           /\ ns[j].type = "message"
                => ns[j].targetConversationId = conversationId
           /\ ns[j].type = "branch"
                => ChildIndex(BranchesUnder(data, conversationId),
                              ns[j].targetConversationId) > 0

\* C24 as claimed: when the conversation is a recorded branch of a parent,
\* the returned nodes are, in this order, the ancestor-title node with the
\* parent's title, the branchRoot node, the parent's branch nodes, the
\* current-title node and the nodes of the conversation.
C24_AncestorContextThenCurrentContent ==
  returnedTree.hasAncestry =>
    AncestryOrder(returnedTree.nodes, returnedTree.branchData,
                  returnedTree.conversationId)

\* The nodes without the one at the second place.
WithoutSecond(ns) == <<ns[1]>> \o SubSeq(ns, 3, Len(ns))

\* C24 as amended: when the conversation is a recorded branch of a parent,
\* the returned nodes are, in this order, the ancestor-title node with the
\* parent's title, the branchRoot node, the parent's branch nodes, the
\* current-title node and the nodes of the conversation, whatever the
\* timestamps; on a page whose path has the WEB: prefix there is one node
\* more, the preBranchIndicator, right behind the ancestor-title node.
C24_AncestorContextThenCurrentContentAroundIndicator ==
  returnedTree.hasAncestry =>
    IF returnedTree.preBranch
    THEN /\ Len(returnedTree.nodes) >= 2
         /\ returnedTree.nodes[2].type = "preBranchIndicator"
         /\ AncestryOrder(WithoutSecond(returnedTree.nodes),
                          returnedTree.branchData, returnedTree.conversationId)
    ELSE AncestryOrder(returnedTree.nodes, returnedTree.branchData,
                       returnedTree.conversationId)

\* The tree of a page with the WEB: prefix, of a conversation that is one of
\* two branches of its parent, whose branch nodes (of a later time) stand
\* before the message of the conversation.
C24_Witness ==
  /\ returnedTree.hasAncestry
  /\ returnedTree.preBranch
  /\ Len(returnedTree.nodes) = 7
  /\ returnedTree.nodes[1].type = "ancestor-title"
  /\ returnedTree.nodes[2].type = "preBranchIndicator"
  /\ returnedTree.nodes[4].type = "branch"
  /\ returnedTree.nodes[5].type = "branch"
  /\ returnedTree.nodes[6].type = "current-title"
  /\ returnedTree.nodes[7].type = "message"
  /\ Greater(returnedTree.nodes[4].createTime, returnedTree.nodes[7].createTime)

\* The branch nodes are one per branch of the parent, in recorded order, and
\* the one of the conversation, and no other, has isViewing.
OneViewing(branchNodes, data, conversationId) ==
  LET parentInfo == findParentBranch(data, conversationId)
      siblings == BranchesUnder(data, parentInfo.parentId)
  IN  /\ Len(branchNodes) = Len(siblings)
      /\ \A i \in 1..Len(siblings) :
           /\ branchNodes[i].targetConversationId = siblings[i].childId
           /\ branchNodes[i].branchIndex = i - 1
      /\ {i \in 1..Len(branchNodes) : branchNodes[i].isViewing}
           = {parentInfo.branchIndex + 1}
      /\ siblings[parentInfo.branchIndex + 1].childId = conversationId

\* The nodes of a returned tree that buildBranchContextNodes made.
ContextBranchNodes(ns) ==
  SelectSeq(ns, LAMBDA n : n.type = "branch" /\ "isViewing" \in DOMAIN n)

\* C25: after any sequence of branch recordings, for every conversation
\* findParentBranch finds a parent of, buildBranchContextNodes of that parent
\* returns one branch node per branch recorded under the parent, in recorded
\* order, and exactly one of them has isViewing: the one of the
\* conversation; so in every tree handleGetTree returned.
C25_ExactlyOneBranchIsViewing ==
  /\ \A conversationId \in BranchIds :
       findParentBranch(stored, conversationId).parentId # Null =>
         OneViewing(
           coreBuildBranchContextNodes(stored,
             findParentBranch(stored, conversationId).parentId,
             conversationId).branchNodes,
           stored, conversationId)
  /\ returnedTree.hasAncestry =>
       OneViewing(ContextBranchNodes(returnedTree.nodes),
                  returnedTree.branchData, returnedTree.conversationId)

\* Two branches are recorded under one parent, and the tree of the second
\* has been returned with its branch node, the second, as the one viewed.
C25_Witness ==
  /\ returnedTree.hasAncestry
  /\ Len(ContextBranchNodes(returnedTree.nodes)) = 2
  /\ ~ContextBranchNodes(returnedTree.nodes)[1].isViewing
  /\ ContextBranchNodes(returnedTree.nodes)[2].isViewing
  /\ findParentBranch(stored, returnedTree.conversationId).branchIndex = 1

\* The executions of handleGetTree that have started and not returned.
InFlight == {origin \in BuildOrigins : builds[origin].pc # "idle"}

\* C26: at most one execution of handleGetTree is in flight at any time,
\* whatever the interleaving of auto-refreshes and GET_CONVERSATION_TREE
\* requests of the panel.
C26_AtMostOneBuildInFlight == Cardinality(InFlight) <= 1

\* isRefreshing of the content script is set exactly while the execution
\* refreshTree started is in flight, the execution for the panel is in
\* flight exactly while the panel awaits its response, and the panel's
\* isRefreshing is set from its call of refresh() until it has the answer.
RefreshFlagsFollowBuilds ==
  /\ isRefreshing <=> "refresh" \in InFlight
  /\ "message" \in InFlight <=> panelRequest = "running"
  /\ panelRequest \in {"tab", "sent", "running", "response"}
       => panelIsRefreshing
  /\ panelRequest = "none" => ~panelIsRefreshing

\* C28: while every addMessage call has named no parent or a parent the
\* graph already held, the links are symmetric and acyclic: each node with
\* a parent is in the childIds of that parent, each id in a childIds set is
\* a node whose parentId is the owner, no parentId chain has a cycle, and
\* validate() reports no orphaned_node, inconsistent_parent_child or
\* circular_reference.
C28_ParentFirstLinksSymmetricAndAcyclic ==
  parentFirst =>
    /\ \A id \in DOMAIN nodes :
         HasParent(Graph, id) =>
           /\ nodes[id].parentId \in DOMAIN nodes
           /\ id \in nodes[nodes[id].parentId].childIds
    /\ \A owner \in DOMAIN nodes :
         \A id \in nodes[owner].childIds :
           id \in DOMAIN nodes /\ nodes[id].parentId = owner
    /\ ~HasCycle(Graph)
    /\ \A t \in {"orphaned_node", "inconsistent_parent_child",
                  "circular_reference"} :
         ErrorsOfType(validate(Graph), t) = <<>>

\* A graph built parent first in which a node has a child and a grandchild.
C28_Witness ==
  /\ parentFirst
  /\ \E owner \in DOMAIN nodes :
       \E id \in nodes[owner].childIds :
         /\ nodes[id].childIds # {}
         /\ nodes[owner].parentId = Null

\* C29: a branch record that checkPendingBranch has saved stays in the
\* stored branch data, whatever the interleaving of the executions of
\* handleGetTree (no clear happens).
C29_SavedBranchRecordStays ==
  \A record \in saved :
    ChildIndex(BranchesUnder(stored, record[1]), record[2]) > 0

\* C27: a refresh that is asked for while another is in flight is not
\* lost: every request (scheduleRefresh, debouncedRefresh, the Refresh
\* button) is eventually followed by a tree build that starts after it, and
\* isRefreshing, of the content script and of the panel, eventually returns
\* to false.
C27_RefreshRequestEventuallyServed ==
  /\ unserved ~> ~unserved
  /\ isRefreshing ~> ~isRefreshing
  /\ panelIsRefreshing ~> ~panelIsRefreshing

\* C30: after any sequence of getCachedConversation and
\* setCachedConversation calls, the in-memory conversation cache holds at
\* most MAX_CACHE_SIZE entries.
C30_MemoryCacheWithinLimit == Len(memoryCache) <= MAX_CACHE_SIZE


====
